---------------------------- MODULE Spec2Model ----------------------------
(***************************************************************************)
(* Model of the daily reconciliation pass of Active_Student_ETL:           *)
(* main.main (src/main.py) with the store operations of src/database.py    *)
(* and the normalizers of src/utils.py.                                    *)
(*                                                                         *)
(* A Python string is a sequence of one-character strings, so that         *)
(* trimming, upper-casing, regular-expression matching and the             *)
(* concatenation that builds a unique key are computed, not assumed.       *)
(* Three values that are not strings are sequences holding one marker      *)
(* that is no character: None, a key that is absent from a dict, and an    *)
(* int (the marker followed by its decimal digits).                        *)
(***************************************************************************)
EXTENDS Integers, Sequences, FiniteSets, TLC

(***************************************************************************)
(* Values                                                                  *)
(***************************************************************************)
None == <<"<None>">>
Missing == <<"<missing>">>
IntMark == "<int>"

IsInt(v) == Len(v) > 0 /\ v[1] = IntMark
IsStr(v) == v # None /\ v # Missing /\ ~IsInt(v)

\* str(v): "None" for None, the decimal digits of an int, a string itself.
PyStr(v) ==
    IF v = None THEN <<"N", "o", "n", "e">>
    ELSE IF IsInt(v) THEN Tail(v)
    ELSE v

\* Truthiness of a value: None, "" and the int 0 are falsy.
Truthy(v) ==
    IF v = None THEN FALSE
    ELSE IF IsInt(v) THEN Tail(v) # <<"0">>
    ELSE v # <<>>

(***************************************************************************)
(* Characters                                                              *)
(***************************************************************************)
LowerLetters == <<"a", "b", "c", "d", "e", "f", "g", "h", "i", "j", "k", "l", "m",
                  "n", "o", "p", "q", "r", "s", "t", "u", "v", "w", "x", "y", "z">>
UpperLetters == <<"A", "B", "C", "D", "E", "F", "G", "H", "I", "J", "K", "L", "M",
                  "N", "O", "P", "Q", "R", "S", "T", "U", "V", "W", "X", "Y", "Z">>
DigitChars == {"0", "1", "2", "3", "4", "5", "6", "7", "8", "9"}
LetterIdx == 1..26

LowerSet == {LowerLetters[k] : k \in LetterIdx}
UpperSet == {UpperLetters[k] : k \in LetterIdx}
UpperOf == [c \in LowerSet |-> UpperLetters[CHOOSE k \in LetterIdx : LowerLetters[k] = c]]
LowerOf == [c \in UpperSet |-> LowerLetters[CHOOSE k \in LetterIdx : UpperLetters[k] = c]]

IsLower(c) == c \in LowerSet
IsUpper(c) == c \in UpperSet
\* The letter dotless i (U+0131): a lower-case letter outside A-Z and
\* a-z, which str.upper() turns into "I".
DotlessI == "U+0131"
\* [A-Za-z] of the re module.
IsAlpha(c) == IsLower(c) \/ IsUpper(c)
\* The cased letters, which str.title() goes by.
IsCased(c) == IsAlpha(c) \/ c = DotlessI
\* \s of the re module, and the characters str.strip() removes.
IsSpace(c) == c \in {" ", "\t", "\n", "\r"}
\* \w of the re module.
IsWordChar(c) == IsCased(c) \/ c \in DigitChars \/ c = "_"

ToUpper(c) == IF IsLower(c) THEN UpperOf[c] ELSE IF c = DotlessI THEN "I" ELSE c
ToLower(c) == IF IsUpper(c) THEN LowerOf[c] ELSE c

(***************************************************************************)
(* String methods                                                          *)
(***************************************************************************)
\* str.upper()
RECURSIVE StrUpper(_)
StrUpper(s) == IF s = <<>> THEN <<>> ELSE <<ToUpper(Head(s))>> \o StrUpper(Tail(s))

RECURSIVE LStrip(_)
LStrip(s) == IF s # <<>> /\ IsSpace(Head(s)) THEN LStrip(Tail(s)) ELSE s

RECURSIVE RStrip(_)
RStrip(s) == IF s # <<>> /\ IsSpace(s[Len(s)]) THEN RStrip(SubSeq(s, 1, Len(s) - 1)) ELSE s

\* str.strip()
StrStrip(s) == RStrip(LStrip(s))

\* str.title(): a letter that follows a letter is lower-cased, any other
\* letter is upper-cased.
RECURSIVE TitleFrom(_, _)
TitleFrom(s, after_letter) ==
    IF s = <<>> THEN <<>>
    ELSE <<IF after_letter THEN ToLower(Head(s)) ELSE ToUpper(Head(s))>>
             \o TitleFrom(Tail(s), IsCased(Head(s)))
StrTitle(s) == TitleFrom(s, FALSE)

\* re.sub(r'\s+', " ", s): every run of whitespace becomes one space.
RECURSIVE CollapseSpaces(_)
CollapseSpaces(s) ==
    IF s = <<>> THEN <<>>
    ELSE IF IsSpace(Head(s))
         THEN <<" ">> \o CollapseSpaces(LStrip(s))
         ELSE <<Head(s)>> \o CollapseSpaces(Tail(s))

\* The longest prefix of s whose characters all satisfy the test.
RECURSIVE WordPrefix(_)
WordPrefix(s) ==
    IF s # <<>> /\ IsWordChar(Head(s)) THEN <<Head(s)>> \o WordPrefix(Tail(s)) ELSE <<>>

RECURSIVE AlphaPrefix(_)
AlphaPrefix(s) ==
    IF s # <<>> /\ IsAlpha(Head(s)) THEN <<Head(s)>> \o AlphaPrefix(Tail(s)) ELSE <<>>

\* re.search(r'[A-Za-z]+', s).group(0): the first run of letters, <<>> if none.
RECURSIVE FirstAlphaRun(_)
FirstAlphaRun(s) ==
    IF s = <<>> THEN <<>>
    ELSE IF IsAlpha(Head(s)) THEN AlphaPrefix(s)
    ELSE FirstAlphaRun(Tail(s))

(***************************************************************************)
(* utils.py                                                                *)
(***************************************************************************)
\* trim_string: strings are stripped, any other value is returned as it is.
trim_string(v) == IF IsStr(v) THEN StrStrip(v) ELSE v

\* clean_student_name (for a string; re.sub raises TypeError otherwise).
clean_student_name(value) == StrTitle(StrStrip(CollapseSpaces(value)))

\* The dict grade_mapping of convert_grade_name: its keys and the lookup
\* grade_mapping.get(k, default).
grade_mapping_get(k, default) ==
    CASE k = <<"J", "r", ".", "K", "G">> -> <<"J", "R", ".", "K", "G">>
      [] k = <<"S", "r", ".", "K", "G">> -> <<"S", "R", ".", "K", "G">>
      [] k = <<"I">> -> <<"1">>
      [] k = <<"I", "I">> -> <<"2">>
      [] k = <<"I", "I", "I">> -> <<"3">>
      [] k = <<"I", "V">> -> <<"4">>
      [] k = <<"V">> -> <<"5">>
      [] k = <<"V", "I">> -> <<"6">>
      [] k = <<"V", "I", "I">> -> <<"7">>
      [] k = <<"V", "I", "I", "I">> -> <<"8">>
      [] k = <<"I", "X">> -> <<"9">>
      [] k = <<"X">> -> <<"1", "0">>
      [] OTHER -> default

GradeWord == <<"G", "R", "A", "D", "E">>

\* re.match(r"GRADE (\w+)", value, re.IGNORECASE): anchored at the start,
\* the five letters in any case, one space, at least one word character.
GradeMatches(value) ==
    /\ Len(value) >= 7
    /\ StrUpper(SubSeq(value, 1, 5)) = GradeWord
    /\ value[6] = " "
    /\ IsWordChar(value[7])

\* match.group(1): the word characters after "GRADE ", taken greedily.
GradeToken(value) == WordPrefix(SubSeq(value, 7, Len(value)))

\* convert_grade_name (for a string; re.match raises TypeError otherwise).
convert_grade_name(value) ==
    IF GradeMatches(value)
    THEN LET roman == StrUpper(GradeToken(value))
         IN  GradeWord \o <<" ">> \o grade_mapping_get(roman, roman)
    ELSE grade_mapping_get(StrUpper(StrStrip(value)), StrStrip(value))

\* The value that stands for an unknown gender: None, bound as SQL NULL.
UNKNOWN == None

\* A clean_gender that hands back every other value uppercased;
\* C15_GenderNormalization tells it from clean_gender.
clean_gender_echo(value) ==
    IF Truthy(value)
    THEN LET v == StrUpper(StrStrip(value))
         IN  IF v = <<"M", "A", "L", "E">> THEN <<"M">>
             ELSE IF v = <<"F", "E", "M", "A", "L", "E">> THEN <<"F">>
             ELSE v
    ELSE None

\* clean_gender (value.strip() raises AttributeError for a truthy non-string).
clean_gender(value) ==
    IF Truthy(value)
    THEN LET v == StrUpper(StrStrip(value))
         IN  IF v = <<"M", "A", "L", "E">> THEN <<"M">>
             ELSE IF v = <<"F", "E", "M", "A", "L", "E">> THEN <<"F">>
             ELSE None
    ELSE None

\* extract_division (re.search raises TypeError for a truthy non-string).
extract_division(value) ==
    IF Truthy(value)
    THEN IF FirstAlphaRun(value) # <<>>
         THEN StrUpper(FirstAlphaRun(value))
         ELSE StrUpper(StrStrip(value))
    ELSE None


DigitSeq == <<"0", "1", "2", "3", "4", "5", "6", "7", "8", "9">>

\* The decimal digits of a natural number, as f"{n}" formats it.
RECURSIVE DecStr(_)
DecStr(n) == IF n < 10 THEN <<DigitSeq[n + 1]>> ELSE DecStr(n \div 10) \o <<DigitSeq[(n % 10) + 1]>>

\* main.main: the academic year rolls over in May.
AcademicYear(year, month) ==
    IF month >= 5
    THEN DecStr(year) \o <<"-">> \o DecStr(year + 1)
    ELSE DecStr(year - 1) \o <<"-">> \o DecStr(year)

Fields == {"school_name", "status", "grade_name", "student_name", "student_id",
           "gender", "division_name"}

\* record.get(f, default) and record.get(f)
Get(record, f, default) == IF record[f] = Missing THEN default ELSE record[f]
GetOrNone(record, f) == Get(record, f, None)

\* The fields validate_student_record requires, in the order it checks them
\* (the order does not change the verdict).
required_fields == {"school_name", "status", "grade_name", "student_name", "student_id",
                    "gender", "division_name"}

\* A validation that forgets student_id; C6_ValidationRejection tells it
\* from validate_student_record.
validate_without_student_id(record) ==
    \A f \in required_fields \ {"student_id"} :
        record[f] # Missing /\ Truthy(trim_string(record[f]))

\* validate_student_record: TRUE when the record is accepted.  The final
\* isinstance test on student_id accepts every str and int, which are the
\* only truthy values of this model.
validate_student_record(record) ==
    \A f \in required_fields : record[f] # Missing /\ Truthy(trim_string(record[f]))

\* generate_unique_key
generate_unique_key(record, academic_year) ==
    LET school_name == StrStrip(PyStr(Get(record, "school_name", <<>>)))
        student_id == StrStrip(PyStr(Get(record, "student_id", <<>>)))
        grade_name == StrStrip(PyStr(Get(record, "grade_name", <<>>)))
        converted_grade == convert_grade_name(grade_name)
    IN  school_name \o <<"_">> \o student_id \o <<"_">> \o academic_year
            \o <<"_">> \o converted_grade

(***************************************************************************)
(* main.py, the per-record part of the loop body                           *)
(***************************************************************************)
\* processed_record = {k: trim_string(v) for k, v in record.items()}
TrimRecord(record) == [f \in Fields |-> trim_string(record[f])]

\* Lines 98-101 raise (TypeError from re.match, re.sub, re.search,
\* AttributeError from value.strip()) when a normalizer is handed a value
\* that is not a string; clean_gender and extract_division return early
\* for a falsy value.
NormalizeRaises(trimmed) ==
    \/ ~IsStr(GetOrNone(trimmed, "grade_name"))
    \/ ~IsStr(GetOrNone(trimmed, "student_name"))
    \/ Truthy(GetOrNone(trimmed, "gender")) /\ ~IsStr(GetOrNone(trimmed, "gender"))
    \/ Truthy(GetOrNone(trimmed, "division_name")) /\ ~IsStr(GetOrNone(trimmed, "division_name"))

\* Lines 93-101: the processed record.
ProcessedRecord(record) ==
    LET t == TrimRecord(record)
    IN  [t EXCEPT !["grade_name"] = convert_grade_name(GetOrNone(t, "grade_name")),
                  !["student_name"] = clean_student_name(GetOrNone(t, "student_name")),
                  !["gender"] = clean_gender(GetOrNone(t, "gender")),
                  !["division_name"] = extract_division(GetOrNone(t, "division_name"))]

(***************************************************************************)
(* database.py.  A table is a set of rows, the history table a sequence    *)
(* of entries.  Every operation takes the tables as the connection sees    *)
(* them and returns them with the statements it executed.                  *)
(***************************************************************************)
Inactive == <<"I", "n", "a", "c", "t", "i", "v", "e">>
InitialInsertion == <<"I", "n", "i", "t", "i", "a", "l", " ",
                      "I", "n", "s", "e", "r", "t", "i", "o", "n">>
\* Column and label names are never taken apart: one element each.
NewRecord == <<"New Record">>
FieldLabel(f) == <<f>>

\* An int bound to a VARCHAR column is stored as its decimal digits.
ColumnText(v) == IF IsInt(v) THEN Tail(v) ELSE v

\* The columns declared NOT NULL by setup_database.py.
NotNullColumns == {"school_name", "student_name", "student_id", "division_name",
                   "academic_year", "unique_key"}
NotNullViolated(row) == \E c \in NotNullColumns : row[c] = None

\* SQL a != b: unknown, hence not true, when a is NULL.
SqlNe(a, b) == a # None /\ a # b

RowsOf(tbl, unique_key) == {r \in tbl : r.unique_key = unique_key}

\* A statement the pass executed: what, for which record of the batch
\* (0: the inactivation sweep), on which key, and whether it took effect.
Stmt(op, idx, unique_key, ok) == [op |-> op, idx |-> idx, key |-> unique_key, ok |-> ok]

\* A fault plan names the statements of one call that the server fails:
\* the SELECT of the current row, the INSERT or UPDATE of the row, and the
\* history INSERTs (by field, "row" for the entry of an inserted row).
NoFaults == [sel |-> FALSE, stmt |-> FALSE, hist |-> {}]

\* fetch_existing_keys; the empty set when the query fails.
fetch_existing_keys(tbl, academic_year, fails) ==
    IF fails THEN {} ELSE {r.unique_key : r \in {x \in tbl : x.academic_year = academic_year}}

HistoryEntry(unique_key, change_type, field_changed, old_value, new_value, ts) ==
    [unique_key |-> unique_key, change_type |-> change_type,
     field_changed |-> field_changed, old_value |-> old_value,
     new_value |-> new_value, change_timestamp |-> ts]

\* log_history: a failed INSERT is logged and swallowed.
log_history(hist, fails, unique_key, change_type, field_changed, old_value, new_value, ts) ==
    IF fails THEN hist
    ELSE Append(hist, HistoryEntry(unique_key, change_type, field_changed,
                                   old_value, new_value, ts))

\* The row insert_new_record binds to its INSERT.
InsertedRow(record, unique_key, academic_year, ts) ==
    [school_name |-> ColumnText(trim_string(GetOrNone(record, "school_name"))),
     status |-> ColumnText(trim_string(GetOrNone(record, "status"))),
     grade_name |-> convert_grade_name(GetOrNone(record, "grade_name")),
     student_name |-> clean_student_name(GetOrNone(record, "student_name")),
     student_id |-> ColumnText(trim_string(GetOrNone(record, "student_id"))),
     gender |-> GetOrNone(record, "gender"),
     division_name |-> extract_division(GetOrNone(record, "division_name")),
     academic_year |-> academic_year,
     unique_key |-> unique_key,
     timestamp |-> ts]

\* An INSERT into a table that lacks the unique constraint on unique_key;
\* C11_ConcurrentInsertRace tells it from insert_new_record.
insert_without_constraint(tbl, hist, record, unique_key, academic_year, ts, idx, plan) ==
    LET row == InsertedRow(record, unique_key, academic_year, ts)
    IN  IF plan.stmt \/ NotNullViolated(row)
        THEN [table |-> tbl, history |-> hist,
              stmts |-> <<Stmt("INSERT", idx, unique_key, FALSE)>>]
        ELSE [table |-> tbl \cup {row},
              history |-> log_history(hist, "row" \in plan.hist, unique_key, "INSERT",
                                      NewRecord, None, InitialInsertion, ts),
              stmts |-> <<Stmt("INSERT", idx, unique_key, TRUE),
                          Stmt("HISTORY", idx, unique_key, "row" \notin plan.hist)>>]

\* An INSERT ... ON DUPLICATE KEY UPDATE, which overwrites the row that
\* holds the key; C28_SnapshotFailure tells it from insert_new_record.
insert_or_overwrite(tbl, hist, record, unique_key, academic_year, ts, idx, plan) ==
    LET row == InsertedRow(record, unique_key, academic_year, ts)
    IN  IF plan.stmt \/ NotNullViolated(row)
        THEN [table |-> tbl, history |-> hist,
              stmts |-> <<Stmt("INSERT", idx, unique_key, FALSE)>>]
        ELSE [table |-> (tbl \ RowsOf(tbl, unique_key)) \cup {row},
              history |-> log_history(hist, "row" \in plan.hist, unique_key, "INSERT",
                                      NewRecord, None, InitialInsertion, ts),
              stmts |-> <<Stmt("INSERT", idx, unique_key, TRUE),
                          Stmt("HISTORY", idx, unique_key, "row" \notin plan.hist)>>]

\* insert_new_record: the INSERT is rejected by the unique constraint
\* (errno 1062) when a row holds the key, and may fail otherwise; the
\* history entry is written only after the row was inserted.
insert_new_record(tbl, hist, record, unique_key, academic_year, ts, idx, plan) ==
    LET row == InsertedRow(record, unique_key, academic_year, ts)
        rejected == plan.stmt \/ RowsOf(tbl, unique_key) # {} \/ NotNullViolated(row)
    IN  IF rejected
        THEN [table |-> tbl, history |-> hist,
              stmts |-> <<Stmt("INSERT", idx, unique_key, FALSE)>>]
        ELSE [table |-> tbl \cup {row},
              history |-> log_history(hist, "row" \in plan.hist, unique_key, "INSERT",
                                      NewRecord, None, InitialInsertion, ts),
              stmts |-> <<Stmt("INSERT", idx, unique_key, TRUE),
                          Stmt("HISTORY", idx, unique_key, "row" \notin plan.hist)>>]

\* fields_to_check of update_existing_record, in the order of the dict.
fields_to_check == <<"status", "grade_name", "student_name", "gender", "division_name">>

\* The new values update_existing_record compares and writes.
NewValues(record) ==
    [status |-> trim_string(GetOrNone(record, "status")),
     grade_name |-> convert_grade_name(GetOrNone(record, "grade_name")),
     student_name |-> clean_student_name(GetOrNone(record, "student_name")),
     gender |-> GetOrNone(record, "gender"),
     division_name |-> extract_division(GetOrNone(record, "division_name"))]

\* A comparison that finds every field changed; C19_UnchangedIsNoOp tells
\* it from FieldChanged.
FieldAlwaysChanged(old_val, new_val) == TRUE

\* The comparison of update_existing_record: str(old_val) != str(new_val).
FieldChanged(old_val, new_val) == PyStr(old_val) # PyStr(new_val)

\* An update whose UPDATE also sets unique_key, to the key without the
\* grade; C23_IdentityImmutable tells it from update_existing_record.
update_rekeying(tbl, hist, record, unique_key, ts, idx, plan) ==
    IF plan.sel \/ RowsOf(tbl, unique_key) = {}
    THEN [table |-> tbl, history |-> hist, stmts |-> <<>>]
    ELSE
    LET cur == CHOOSE r \in RowsOf(tbl, unique_key) : TRUE
        new == NewValues(record)
        changed == {k \in 1..Len(fields_to_check) :
                        FieldChanged(cur[fields_to_check[k]], new[fields_to_check[k]])}
        entries == [k \in 1..Len(fields_to_check) |->
                        HistoryEntry(unique_key, "UPDATE", FieldLabel(fields_to_check[k]),
                                     cur[fields_to_check[k]], new[fields_to_check[k]], ts)]
        logged == SelectSeq(entries,
                      LAMBDA e : /\ FieldChanged(e.old_value, e.new_value)
                                 /\ e.field_changed[1] \notin plan.hist)
        attempts == [k \in 1..Len(fields_to_check) |->
                        Stmt("HISTORY", idx, unique_key, fields_to_check[k] \notin plan.hist)]
        tried == [k \in 1..Len(fields_to_check) |-> [s |-> attempts[k], c |-> k \in changed]]
        hstmts == [k \in 1..Len(SelectSeq(tried, LAMBDA t : t.c)) |->
                        SelectSeq(tried, LAMBDA t : t.c)[k].s]
        updated == [cur EXCEPT !.status = ColumnText(new.status),
                               !.grade_name = new.grade_name,
                               !.student_name = new.student_name,
                               !.gender = new.gender,
                               !.division_name = new.division_name,
                               !.timestamp = ts,
                               !.unique_key = cur.school_name \o <<"_">> \o cur.student_id
                                                \o <<"_">> \o cur.academic_year]
    IN  IF changed = {}
        THEN [table |-> tbl, history |-> hist, stmts |-> <<>>]
        ELSE [table |-> IF plan.stmt THEN tbl
                        ELSE (tbl \ RowsOf(tbl, unique_key)) \cup {updated},
              history |-> hist \o logged,
              stmts |-> hstmts \o <<Stmt("UPDATE", idx, unique_key, ~plan.stmt)>>]

\* update_existing_record: nothing when the current row cannot be read;
\* one history entry per changed field, then the UPDATE when any changed.
update_existing_record(tbl, hist, record, unique_key, ts, idx, plan) ==
    IF plan.sel \/ RowsOf(tbl, unique_key) = {}
    THEN [table |-> tbl, history |-> hist, stmts |-> <<>>]
    ELSE
    LET cur == CHOOSE r \in RowsOf(tbl, unique_key) : TRUE
        new == NewValues(record)
        changed == {k \in 1..Len(fields_to_check) :
                        FieldChanged(cur[fields_to_check[k]], new[fields_to_check[k]])}
        entries == [k \in 1..Len(fields_to_check) |->
                        HistoryEntry(unique_key, "UPDATE", FieldLabel(fields_to_check[k]),
                                     cur[fields_to_check[k]], new[fields_to_check[k]], ts)]
        logged == SelectSeq(entries,
                      LAMBDA e : /\ FieldChanged(e.old_value, e.new_value)
                                 /\ e.field_changed[1] \notin plan.hist)
        attempts == [k \in 1..Len(fields_to_check) |->
                        Stmt("HISTORY", idx, unique_key, fields_to_check[k] \notin plan.hist)]
        tried == [k \in 1..Len(fields_to_check) |-> [s |-> attempts[k], c |-> k \in changed]]
        hstmts == [k \in 1..Len(SelectSeq(tried, LAMBDA t : t.c)) |->
                        SelectSeq(tried, LAMBDA t : t.c)[k].s]
        updated == [cur EXCEPT !.status = ColumnText(new.status),
                               !.grade_name = new.grade_name,
                               !.student_name = new.student_name,
                               !.gender = new.gender,
                               !.division_name = new.division_name,
                               !.timestamp = ts]
    IN  IF changed = {}
        THEN [table |-> tbl, history |-> hist, stmts |-> <<>>]
        ELSE [table |-> IF plan.stmt THEN tbl
                        ELSE (tbl \ RowsOf(tbl, unique_key)) \cup {updated},
              history |-> hist \o logged,
              stmts |-> hstmts \o <<Stmt("UPDATE", idx, unique_key, ~plan.stmt)>>]

\* The set difference with its operands exchanged; C3_InactivationSweep
\* tells it from InactiveKeys.
InactiveKeysSwapped(existing_keys, api_keys) == api_keys \ existing_keys

\* inactive_keys of mark_records_as_inactive.
InactiveKeys(existing_keys, api_keys) == existing_keys \ api_keys

\* An iteration that writes whatever the current status is, with an
\* UPDATE that lacks the condition on status; C22_InactiveUntouched tells
\* it from MarkOne.
MarkOneAnyStatus(acc, unique_key, ts, plan) ==
    LET rows == RowsOf(acc.table, unique_key)
        cur == CHOOSE r \in rows : TRUE
    IN  IF unique_key \in plan.stmt
        THEN [acc EXCEPT !.stmts = Append(@, Stmt("INACTIVATE", 0, unique_key, FALSE))]
        ELSE IF rows = {}
        THEN acc
        ELSE [table |-> (acc.table \ rows)
                           \cup {[cur EXCEPT !.status = Inactive, !.timestamp = ts]},
              history |-> log_history(acc.history, unique_key \in plan.hist, unique_key,
                                      "INACTIVATE", FieldLabel("status"), cur.status,
                                      Inactive, ts),
              stmts |-> acc.stmts \o <<Stmt("INACTIVATE", 0, unique_key, TRUE),
                                       Stmt("HISTORY", 0, unique_key,
                                            unique_key \notin plan.hist)>>]

\* One iteration of the loop of mark_records_as_inactive: the SELECT or the
\* UPDATE may fail (logged, next key); the UPDATE changes a row only where
\* status != 'Inactive' holds in SQL; the history entry follows a changed row.
MarkOne(acc, unique_key, ts, plan) ==
    LET rows == RowsOf(acc.table, unique_key)
        cur == CHOOSE r \in rows : TRUE
    IN  IF unique_key \in plan.stmt
        THEN [acc EXCEPT !.stmts = Append(@, Stmt("INACTIVATE", 0, unique_key, FALSE))]
        ELSE IF rows = {} \/ cur.status = Inactive
        THEN acc
        ELSE IF ~SqlNe(cur.status, Inactive)
        THEN [acc EXCEPT !.stmts = Append(@, Stmt("INACTIVATE", 0, unique_key, FALSE))]
        ELSE [table |-> (acc.table \ rows)
                           \cup {[cur EXCEPT !.status = Inactive, !.timestamp = ts]},
              history |-> log_history(acc.history, unique_key \in plan.hist, unique_key,
                                      "INACTIVATE", FieldLabel("status"), cur.status,
                                      Inactive, ts),
              stmts |-> acc.stmts \o <<Stmt("INACTIVATE", 0, unique_key, TRUE),
                                       Stmt("HISTORY", 0, unique_key,
                                            unique_key \notin plan.hist)>>]

RECURSIVE MarkAll(_, _, _, _)
MarkAll(acc, order, ts, plan) ==
    IF order = <<>> THEN acc
    ELSE MarkAll(MarkOne(acc, Head(order), ts, plan), Tail(order), ts, plan)

\* A sweep that deletes the rows of inactive_keys; C24_NoPhysicalDeletion
\* tells it from mark_records_as_inactive.
sweep_deleting(tbl, hist, order, ts, plan) ==
    [table |-> {r \in tbl : \A n \in 1..Len(order) : order[n] # r.unique_key},
     history |-> hist,
     stmts |-> <<>>]

\* mark_records_as_inactive, visiting inactive_keys in the given order.
mark_records_as_inactive(tbl, hist, order, ts, plan) ==
    MarkAll([table |-> tbl, history |-> hist, stmts |-> <<>>], order, ts, plan)

(***************************************************************************)
(* sync_students.py: the unified sync                                      *)
(***************************************************************************)
\* clean_student_name of sync_students.py.
sync_clean_student_name(value) ==
    IF Truthy(value) THEN StrTitle(StrStrip(CollapseSpaces(value))) ELSE None

\* roman_to_number.get(k, default)
roman_to_number_get(k, default) ==
    CASE k = <<"I">> -> <<"1">>
      [] k = <<"I", "I">> -> <<"2">>
      [] k = <<"I", "I", "I">> -> <<"3">>
      [] k = <<"I", "V">> -> <<"4">>
      [] k = <<"V">> -> <<"5">>
      [] k = <<"V", "I">> -> <<"6">>
      [] k = <<"V", "I", "I">> -> <<"7">>
      [] k = <<"V", "I", "I", "I">> -> <<"8">>
      [] k = <<"I", "X">> -> <<"9">>
      [] k = <<"X">> -> <<"1", "0">>
      [] OTHER -> default

\* convert_grade_name of sync_students.py (for None or a string).
sync_convert_grade_name(value) ==
    IF ~Truthy(value) THEN None
    ELSE LET v == StrStrip(value)
         IN  IF v = <<"J", "r", ".", "K", "G">> THEN <<"J", "R", ".", "K", "G">>
             ELSE IF v = <<"S", "r", ".", "K", "G">> THEN <<"S", "R", ".", "K", "G">>
             ELSE IF GradeMatches(StrUpper(v))
             THEN GradeWord \o <<" ">>
                    \o roman_to_number_get(StrUpper(GradeToken(StrUpper(v))),
                                           GradeToken(StrUpper(v)))
             ELSE StrUpper(v)

\* clean_gender of sync_students.py.
sync_clean_gender(value) ==
    IF ~Truthy(value) THEN None
    ELSE LET v == StrUpper(StrStrip(value))
         IN  IF v = <<"M", "A", "L", "E">> THEN <<"M">>
             ELSE IF v = <<"F", "E", "M", "A", "L", "E">> THEN <<"F">>
             ELSE v

\* extract_division of sync_students.py.
sync_extract_division(value) ==
    IF ~Truthy(value) THEN None
    ELSE IF FirstAlphaRun(value) # <<>> THEN StrUpper(FirstAlphaRun(value))
    ELSE StrUpper(value)

\* A key that takes the school name as it is written;
\* C17_OneRowPerStudent tells it from sync_generate_unique_key.
sync_key_raw_school(record) ==
    StrStrip(record.school_name) \o <<"_">> \o StrUpper(StrStrip(PyStr(record.student_id)))
        \o <<"_">> \o StrStrip(record.academic_year)

\* generate_unique_key of sync_students.py, for the dict built by
\* insert_or_update_record (school_name a string).
sync_generate_unique_key(record) ==
    LET school == StrUpper(StrStrip(CollapseSpaces(record.school_name)))
        student_id == StrUpper(StrStrip(PyStr(record.student_id)))
        year == StrStrip(record.academic_year)
    IN  school \o <<"_">> \o student_id \o <<"_">> \o year

\* insert_or_update_record raises before its first statement: re.sub in
\* generate_unique_key given no string, or strip() of a truthy non-string.
SyncRaises(record) ==
    \/ ~IsStr(GetOrNone(record, "school_name"))
    \/ Truthy(GetOrNone(record, "grade_name")) /\ ~IsStr(GetOrNone(record, "grade_name"))
    \/ Truthy(GetOrNone(record, "student_name")) /\ ~IsStr(GetOrNone(record, "student_name"))
    \/ Truthy(GetOrNone(record, "gender")) /\ ~IsStr(GetOrNone(record, "gender"))
    \/ Truthy(GetOrNone(record, "division_name"))
          /\ ~IsStr(GetOrNone(record, "division_name"))

SyncKey(record, academic_year) ==
    sync_generate_unique_key([school_name |-> GetOrNone(record, "school_name"),
                              student_id |-> GetOrNone(record, "student_id"),
                              academic_year |-> academic_year])

\* The row insert_or_update_record binds to its INSERT.
SyncRow(record, academic_year, ts) ==
    [school_name |-> StrUpper(StrStrip(CollapseSpaces(Get(record, "school_name", <<>>)))),
     status |-> ColumnText(GetOrNone(record, "status")),
     grade_name |-> sync_convert_grade_name(GetOrNone(record, "grade_name")),
     student_name |-> sync_clean_student_name(GetOrNone(record, "student_name")),
     student_id |-> ColumnText(GetOrNone(record, "student_id")),
     gender |-> sync_clean_gender(GetOrNone(record, "gender")),
     division_name |-> sync_extract_division(GetOrNone(record, "division_name")),
     academic_year |-> academic_year,
     unique_key |-> SyncKey(record, academic_year),
     timestamp |-> ts]

\* insert_or_update_record: the existence check answers FALSE when its
\* query fails; the UPDATE or the INSERT raises when it would put NULL
\* into a NOT NULL column; the INSERT of a key that a row holds is
\* rejected (errno 1062) and answered with 'duplicate'.
insert_or_update_record(tbl, record, academic_year, ts, idx, check_fails) ==
    IF SyncRaises(record)
    THEN [table |-> tbl, stmts |-> <<>>, result |-> "raise"]
    ELSE
    LET unique_key == SyncKey(record, academic_year)
        row == SyncRow(record, academic_year, ts)
        exists == ~check_fails /\ RowsOf(tbl, unique_key) # {}
        cur == CHOOSE r \in RowsOf(tbl, unique_key) : TRUE
        updated == [cur EXCEPT !.status = row.status,
                               !.grade_name = row.grade_name,
                               !.student_name = row.student_name,
                               !.gender = row.gender,
                               !.division_name = row.division_name,
                               !.timestamp = ts]
    IN  IF exists
        THEN IF NotNullViolated(updated)
             THEN [table |-> tbl, result |-> "raise",
                   stmts |-> <<Stmt("UPDATE", idx, unique_key, FALSE)>>]
             ELSE [table |-> (tbl \ RowsOf(tbl, unique_key)) \cup {updated},
                   result |-> "update",
                   stmts |-> <<Stmt("UPDATE", idx, unique_key, TRUE)>>]
        ELSE IF RowsOf(tbl, unique_key) # {}
             THEN [table |-> tbl, result |-> "duplicate",
                   stmts |-> <<Stmt("INSERT", idx, unique_key, FALSE)>>]
        ELSE IF NotNullViolated(row)
             THEN [table |-> tbl, result |-> "raise",
                   stmts |-> <<Stmt("INSERT", idx, unique_key, FALSE)>>]
        ELSE [table |-> tbl \cup {row}, result |-> "insert",
              stmts |-> <<Stmt("INSERT", idx, unique_key, TRUE)>>]

(***************************************************************************)
(* Bounds and inputs                                                       *)
(***************************************************************************)
\* The longest data list of an upstream payload.
MaxBatch == 2
\* The number of runs of main.main in a behaviour.
MaxRuns == 2
\* The number of statements the server fails in a behaviour.
MaxFaults == 1

\* The date of the runs: June 2025, academic year "2025-2026".
Today == [year |-> 2025, month |-> 6]
ThisYear == AcademicYear(Today.year, Today.month)
LastYear == AcademicYear(Today.year - 1, Today.month)

Active == <<"A", "c", "t", "i", "v", "e">>
Left == <<"L", "e", "f", "t">>

\* A student of the upstream feed.
StudentA ==
    [school_name |-> <<"Z", "P">>, status |-> Active,
     grade_name |-> <<"G", "R", "A", "D", "E", " ", "I">>,
     student_name |-> <<"a", "n", "n">>, student_id |-> <<"7">>,
     gender |-> <<"M", "a", "l", "e">>, division_name |-> <<"1", "-", "a">>]
StudentB == [StudentA EXCEPT !.student_id = <<"8">>, !.student_name = <<"b", "o", "b">>]
StudentC == [StudentA EXCEPT !.student_id = <<"9">>, !.student_name = <<"c", "y">>]

\* The records a payload is made of: the student, the student promoted to
\* the next grade, the student with another status, a record without
\* student_id, one with a blank student_name, one whose grade_name is the
\* JSON number 5.
RawRecords ==
    { StudentA,
      [StudentA EXCEPT !.grade_name = <<"G", "R", "A", "D", "E", " ", "I", "I">>],
      [StudentA EXCEPT !.status = Left],
      [StudentA EXCEPT !.student_id = Missing],
      [StudentA EXCEPT !.student_name = <<" ", " ">>],
      [StudentA EXCEPT !.grade_name = <<IntMark, "5">>] }

\* The lists of at most n pairwise different members of S.
RECURSIVE SeqsUpTo(_, _)
SeqsUpTo(S, n) ==
    IF n = 0 THEN {<<>>}
    ELSE LET shorter == SeqsUpTo(S, n - 1)
         IN  shorter \cup
             UNION {{Append(b, r) : r \in S \ {b[k] : k \in 1..Len(b)}} :
                    b \in {x \in shorter : Len(x) = n - 1}}

\* The body of the upstream response: a JSON object with a data list, or
\* one without (empty, or holding other members only).
Payloads ==
    {[has_data |-> TRUE, other |-> FALSE, data |-> b] : b \in SeqsUpTo(RawRecords, MaxBatch)}
    \cup {[has_data |-> FALSE, other |-> o, data |-> <<>>] : o \in BOOLEAN}

\* How the request of fetch_data_from_api ends.
HttpOutcomes == {"ok", "status", "timeout", "request_error", "bad_payload"}

\* The row an earlier pass stored for a record.
StoredRow(record, academic_year) ==
    InsertedRow(ProcessedRecord(record),
                generate_unique_key(ProcessedRecord(record), academic_year),
                academic_year, 0)

\* The record table before the first run: empty, or as earlier passes left it.
InitTables ==
    { {},
      {StoredRow(StudentA, ThisYear), StoredRow(StudentB, ThisYear),
       [StoredRow(StudentC, ThisYear) EXCEPT !.status = Inactive]},
      {[StoredRow(StudentA, ThisYear) EXCEPT !.status = Inactive],
       StoredRow(StudentB, ThisYear), StoredRow(StudentB, LastYear)} }

(***************************************************************************)
(* api.py and the start of main.main                                       *)
(***************************************************************************)
\* What fetch_data_from_api returns: None, or the decoded body.
NoneResponse == [none |-> TRUE, has_data |-> FALSE, other |-> FALSE, data |-> <<>>]
Decoded(body) ==
    [none |-> FALSE, has_data |-> body.has_data, other |-> body.other, data |-> body.data]

\* A fetch that decodes the body whatever the status; C9_FetchFailureAborts
\* tells it from fetch_data_from_api.
fetch_ignoring_status(kind, body) ==
    IF kind \in {"ok", "status"} THEN Decoded(body) ELSE NoneResponse

\* fetch_data_from_api: the decoded body for status 200, None for any other
\* status, a timeout, a request error or a body that does not decode.
fetch_data_from_api(kind, body) == IF kind = "ok" THEN Decoded(body) ELSE NoneResponse

\* `not json_response` is false for a dict with at least one member.
ResponseTruthy(resp) == ~resp.none /\ (resp.has_data \/ resp.other)

\* json_response.get('data', [])
StudentsData(resp) == IF resp.has_data THEN resp.data ELSE <<>>

\* The names main.py binds at module level by its imports (lines 2-12).
MainImports ==
    {"logging", "fetch_data_from_api", "connect_to_mysql", "fetch_existing_keys",
     "update_existing_record", "insert_new_record", "fetch_duplicate_records",
     "mark_records_as_inactive", "generate_unique_key", "validate_student_record",
     "trim_string", "convert_grade_name", "clean_student_name", "clean_gender",
     "extract_division", "setup_logging", "datetime", "configparser", "sys"}

\* Whether the clause `except mysql.connector.Error` can be evaluated: it
\* looks up the global name mysql, and raises NameError when it is unbound.
CommitHandlerResolves == "mysql" \in MainImports

\* A commit handler that logs the error and returns; C10_ExitStatus tells
\* it from ExitCode.
ExitCodeSwallowed(how) ==
    CASE how = "committed" -> 0
      [] how = "empty" -> 0
      [] how = "fetch_failed" -> 1
      [] how = "connect_failed" -> 1
      [] how = "commit_failed" -> 0
      [] how = "crashed" -> 1

\* The exit status of the process for each way main.main ends.  An
\* exception that leaves main (a crash in the loop, the NameError of the
\* commit handler) ends the interpreter with status 1.
ExitCode(how) ==
    CASE how = "committed" -> 0
      [] how = "empty" -> 0
      [] how = "fetch_failed" -> 1
      [] how = "connect_failed" -> 1
      [] how = "commit_failed" -> 1
      [] how = "crashed" -> 1

\* A server in autocommit mode, where every statement is durable at once;
\* C2_FatalAbortAtomicity tells it from DurableAfterFailedCommit.
DurableInAutocommit(durable, uncommitted) == uncommitted

\* What is durable after a failed commit: the transaction is rolled back
\* by the handler or, when the handler does not run, discarded by the
\* server when the finally clause closes the connection.
DurableAfterFailedCommit(durable, uncommitted) == durable

(***************************************************************************)
(* State                                                                   *)
(***************************************************************************)
VARIABLES
    payload,            \* the body the upstream API serves
    table,              \* active_student_data, committed
    history,            \* student_data_history, committed
    run,                \* the number of this run of main.main; its clock
    pc,                 \* where main.main stands
    http,               \* how this run's request ended
    json_response,
    conn,               \* "none", "open", "closed", "lost"
    tx_table,           \* the tables as the open connection sees them
    tx_history,
    existing_keys,
    processed_api_keys,
    new_records_count,
    updated_records_count,
    skipped_invalid_records_count,
    i,                  \* the 1-based index of the next record of the loop
    exit_code,          \* -1 while the process runs
    outcome,            \* how the run ended
    rollback_called,
    faults,             \* statements failed by the server so far
    \* History variables, for stating properties:
    snapshot,           \* existing_keys as fetch_existing_keys returned it
    trace,              \* the statements this run executed, in order
    table0,             \* the committed tables when the run started
    history0,
    prev_outcome        \* how the previous run ended

locals == <<http, json_response, conn, tx_table, tx_history, existing_keys,
            processed_api_keys, new_records_count, updated_records_count,
            skipped_invalid_records_count, i, exit_code, outcome, rollback_called,
            snapshot, trace>>
vars == <<payload, table, history, run, pc, faults, table0, history0, prev_outcome, locals>>

academic_year == ThisYear
students_data == StudentsData(json_response)

Init ==
    /\ payload \in Payloads
    /\ table \in InitTables
    /\ history = <<>>
    /\ run = 1
    /\ pc = "start"
    /\ http = "none"
    /\ json_response = NoneResponse
    /\ conn = "none"
    /\ tx_table = {}
    /\ tx_history = <<>>
    /\ existing_keys = {}
    /\ processed_api_keys = {}
    /\ new_records_count = 0
    /\ updated_records_count = 0
    /\ skipped_invalid_records_count = 0
    /\ i = 1
    /\ exit_code = -1
    /\ outcome = "running"
    /\ rollback_called = FALSE
    /\ faults = 0
    /\ snapshot = {}
    /\ trace = <<>>
    /\ table0 = table
    /\ history0 = history
    /\ prev_outcome = "none"

\* The process ends.
Exit(how) ==
    /\ pc' = "done"
    /\ outcome' = how
    /\ exit_code' = ExitCode(how)

(***************************************************************************)
(* Fault plans                                                             *)
(***************************************************************************)
Budget == MaxFaults - faults
HistSlots == {"row", "status", "grade_name", "student_name", "gender", "division_name"}
FaultPoints == {"sel", "stmt"} \cup HistSlots
PlanFaults(p) ==
    (IF p.sel THEN {"sel"} ELSE {}) \cup (IF p.stmt THEN {"stmt"} ELSE {}) \cup p.hist
PlanCost(p) == Cardinality(PlanFaults(p))
WithFault(p, x) ==
    IF x = "sel" THEN [p EXCEPT !.sel = TRUE]
    ELSE IF x = "stmt" THEN [p EXCEPT !.stmt = TRUE]
    ELSE [p EXCEPT !.hist = @ \cup {x}]
WithoutFault(p, x) ==
    IF x = "sel" THEN [p EXCEPT !.sel = FALSE]
    ELSE IF x = "stmt" THEN [p EXCEPT !.stmt = FALSE]
    ELSE [p EXCEPT !.hist = @ \ {x}]
\* The plans of at most `budget` faults at the given points.
RECURSIVE Plans(_, _)
Plans(budget, points) ==
    IF budget <= 0 THEN {NoFaults}
    ELSE LET fewer == Plans(budget - 1, points)
         IN  fewer \cup {WithFault(p, x) : p \in fewer, x \in points}
\* The statements insert_new_record and update_existing_record execute.
InsertPoints == {"stmt", "row"}
UpdatePoints == FaultPoints \ {"row"}
\* A plan is taken only when each of its faults hits a statement the call
\* executes: without the fault the call would end otherwise.
Effective(p, Result(_)) == \A x \in PlanFaults(p) : Result(WithoutFault(p, x)) # Result(p)

SweepCost(p) == Cardinality(p.stmt) + Cardinality(p.hist)
SweepPlans(keys, budget) ==
    IF budget <= 0 THEN {[stmt |-> {}, hist |-> {}]}
    ELSE {p \in [stmt : SUBSET keys, hist : SUBSET keys] : SweepCost(p) <= budget}
SweepEffective(p, Result(_)) ==
    /\ \A k \in p.stmt : Result([p EXCEPT !.stmt = @ \ {k}]) # Result(p)
    /\ \A k \in p.hist : Result([p EXCEPT !.hist = @ \ {k}]) # Result(p)

\* The orders in which a loop may visit a set.
Orders(S) ==
    {o \in [1..Cardinality(S) -> S] : \A a, b \in 1..Cardinality(S) : a # b => o[a] # o[b]}

(***************************************************************************)
(* main.main, one action per step                                          *)
(***************************************************************************)
\* Lines 43-54: the fetch and the two early exits.
FetchData ==
    /\ pc = "start"
    /\ \E kind \in HttpOutcomes :
        LET resp == fetch_data_from_api(kind, payload)
        IN  /\ http' = kind
            /\ json_response' = resp
            /\ IF ~ResponseTruthy(resp) THEN Exit("fetch_failed")
               ELSE IF StudentsData(resp) = <<>> THEN Exit("empty")
               ELSE pc' = "connect" /\ UNCHANGED <<outcome, exit_code>>
    /\ UNCHANGED <<payload, table, history, run, faults, table0, history0, prev_outcome,
                   conn, tx_table, tx_history, existing_keys, processed_api_keys,
                   new_records_count, updated_records_count,
                   skipped_invalid_records_count, i, rollback_called, snapshot, trace>>

\* Lines 56-62: connect_to_mysql returns a connection or None.
Connect ==
    /\ pc = "connect"
    /\ \/ /\ conn' = "open"
          /\ tx_table' = table
          /\ tx_history' = history
          /\ pc' = "snapshot"
          /\ UNCHANGED <<outcome, exit_code>>
       \/ /\ Exit("connect_failed")
          /\ UNCHANGED <<conn, tx_table, tx_history>>
    /\ UNCHANGED <<payload, table, history, run, faults, table0, history0, prev_outcome,
                   http, json_response, existing_keys, processed_api_keys,
                   new_records_count, updated_records_count,
                   skipped_invalid_records_count, i, rollback_called, snapshot, trace>>

\* Lines 64-77: the snapshot of the year's keys and the counters.
FetchExistingKeys ==
    /\ pc = "snapshot"
    /\ \E fails \in {f \in BOOLEAN : f => Budget > 0} :
        /\ existing_keys' = fetch_existing_keys(tx_table, academic_year, fails)
        /\ snapshot' = existing_keys'
        /\ faults' = faults + (IF fails THEN 1 ELSE 0)
    /\ processed_api_keys' = {}
    /\ new_records_count' = 0
    /\ updated_records_count' = 0
    /\ skipped_invalid_records_count' = 0
    /\ i' = 1
    /\ pc' = "loop"
    /\ UNCHANGED <<payload, table, history, run, table0, history0, prev_outcome,
                   http, json_response, conn, tx_table, tx_history, exit_code, outcome,
                   rollback_called, trace>>

\* Lines 80-116: one iteration of the loop over students_data.
ProcessRecord ==
    /\ pc = "loop"
    /\ i <= Len(students_data)
    /\ LET record == students_data[i]
       IN  IF ~validate_student_record(record)
           THEN \* lines 86-89
                /\ skipped_invalid_records_count' = skipped_invalid_records_count + 1
                /\ i' = i + 1
                /\ UNCHANGED <<pc, conn, tx_table, tx_history, existing_keys,
                               processed_api_keys, new_records_count,
                               updated_records_count, exit_code, outcome, trace, faults>>
           ELSE IF NormalizeRaises(TrimRecord(record))
           THEN \* lines 98-101: the exception leaves main; the process dies
                \* with the transaction open, which the server discards
                /\ Exit("crashed")
                /\ conn' = "lost"
                /\ tx_table' = table
                /\ tx_history' = history
                /\ UNCHANGED <<i, existing_keys, processed_api_keys, new_records_count,
                               updated_records_count, skipped_invalid_records_count,
                               trace, faults>>
           ELSE LET processed_record == ProcessedRecord(record)
                    unique_key == generate_unique_key(processed_record, academic_year)
                    is_new == unique_key \notin existing_keys
                    Result(p) ==
                        IF is_new
                        THEN insert_new_record(tx_table, tx_history, processed_record,
                                               unique_key, academic_year, run, i, p)
                        ELSE update_existing_record(tx_table, tx_history, processed_record,
                                                    unique_key, run, i, p)
                    points == IF is_new THEN InsertPoints ELSE UpdatePoints
                IN  \E p \in {q \in Plans(Budget, points) : Effective(q, Result)} :
                    \E res \in {Result(p)} :
                      /\ tx_table' = res.table
                      /\ tx_history' = res.history
                      /\ trace' = trace \o <<Stmt("KEY", i, unique_key, TRUE)>> \o res.stmts
                      /\ faults' = faults + PlanCost(p)
                      /\ processed_api_keys' = processed_api_keys \cup {unique_key}
                      /\ new_records_count' =
                            IF is_new THEN new_records_count + 1 ELSE new_records_count
                      /\ updated_records_count' =
                            IF is_new THEN updated_records_count
                            ELSE updated_records_count + 1
                      /\ existing_keys' =
                            IF is_new THEN existing_keys ELSE existing_keys \ {unique_key}
                      /\ i' = i + 1
                      /\ UNCHANGED <<pc, conn, exit_code, outcome,
                                     skipped_invalid_records_count>>
    /\ UNCHANGED <<payload, table, history, run, table0, history0, prev_outcome,
                   http, json_response, rollback_called, snapshot>>

\* Lines 118-124: mark_records_as_inactive(cursor, existing_keys, processed_api_keys).
MarkInactive ==
    /\ pc = "loop"
    /\ i > Len(students_data)
    /\ LET inactive_keys == InactiveKeys(existing_keys, processed_api_keys)
       IN  \E order \in Orders(inactive_keys) :
           LET Result(p) == mark_records_as_inactive(tx_table, tx_history, order, run, p)
           IN  \E p \in {q \in SweepPlans(inactive_keys, Budget) : SweepEffective(q, Result)} :
               \E res \in {Result(p)} :
                 /\ tx_table' = res.table
                 /\ tx_history' = res.history
                 /\ trace' = trace \o res.stmts
                 /\ faults' = faults + SweepCost(p)
    /\ pc' = "dupcheck"
    /\ UNCHANGED <<payload, table, history, run, table0, history0, prev_outcome,
                   http, json_response, conn, existing_keys, processed_api_keys,
                   new_records_count, updated_records_count,
                   skipped_invalid_records_count, i, exit_code, outcome,
                   rollback_called, snapshot>>

\* Lines 126-128: fetch_duplicate_records only reads and logs.
DuplicateCheck ==
    /\ pc = "dupcheck"
    /\ pc' = "commit"
    /\ UNCHANGED <<payload, table, history, run, faults, table0, history0, prev_outcome,
                   locals>>

\* Lines 130-145: the commit.  When it raises, the except clause is
\* evaluated: the handler rolls back and exits with 1 if the clause
\* resolves, else NameError leaves main; the finally clause closes the
\* connection in both cases.
Commit ==
    /\ pc = "commit"
    /\ \/ /\ table' = tx_table
          /\ history' = tx_history
          /\ Exit("committed")
          /\ UNCHANGED <<tx_table, tx_history, rollback_called>>
       \/ /\ table' = DurableAfterFailedCommit(table, tx_table)
          /\ history' = DurableAfterFailedCommit(history, tx_history)
          /\ tx_table' = table'
          /\ tx_history' = history'
          /\ rollback_called' = CommitHandlerResolves
          /\ Exit("commit_failed")
    /\ conn' = "closed"
    /\ UNCHANGED <<payload, run, faults, table0, history0, prev_outcome, http,
                   json_response, existing_keys, processed_api_keys, new_records_count,
                   updated_records_count, skipped_invalid_records_count, i, snapshot,
                   trace>>

\* The job is started again after a run that committed.
NextRun ==
    /\ pc = "done"
    /\ outcome = "committed"
    /\ run < MaxRuns
    /\ run' = run + 1
    /\ pc' = "start"
    /\ prev_outcome' = outcome
    /\ table0' = table
    /\ history0' = history
    /\ http' = "none"
    /\ json_response' = NoneResponse
    /\ conn' = "none"
    /\ tx_table' = {}
    /\ tx_history' = <<>>
    /\ existing_keys' = {}
    /\ processed_api_keys' = {}
    /\ new_records_count' = 0
    /\ updated_records_count' = 0
    /\ skipped_invalid_records_count' = 0
    /\ i' = 1
    /\ exit_code' = -1
    /\ outcome' = "running"
    /\ rollback_called' = FALSE
    /\ snapshot' = {}
    /\ trace' = <<>>
    /\ UNCHANGED <<payload, table, history, faults>>

Next ==
    \/ FetchData
    \/ Connect
    \/ FetchExistingKeys
    \/ ProcessRecord
    \/ MarkInactive
    \/ DuplicateCheck
    \/ Commit
    \/ NextRun

Spec == Init /\ [][Next]_vars

(***************************************************************************)
(* A pass that runs while another pass inserts                             *)
(***************************************************************************)
\* The clock of the other pass: no run of this behaviour has it.
OtherClock == run + MaxRuns
ByOther(row) == row.timestamp > MaxRuns

\* Another pass over the same feed inserts the row of a record and its
\* history entry and commits, after this pass took its snapshot.  The
\* unique constraint admits the row only when no row holds the key; this
\* pass meets the committed row in its own INSERT (errno 1062).
ConcurrentInsert ==
    /\ pc = "loop"
    /\ \E j \in 1..Len(students_data) :
        /\ validate_student_record(students_data[j])
        /\ ~NormalizeRaises(TrimRecord(students_data[j]))
        /\ LET record == ProcessedRecord(students_data[j])
               unique_key == generate_unique_key(record, academic_year)
               row == InsertedRow(record, unique_key, academic_year, OtherClock)
               entry == HistoryEntry(unique_key, "INSERT", NewRecord, None,
                                     InitialInsertion, OtherClock)
           IN  /\ RowsOf(tx_table, unique_key) = {}
               /\ ~NotNullViolated(row)
               /\ table' = table \cup {row}
               /\ tx_table' = tx_table \cup {row}
               /\ history' = Append(history, entry)
               /\ tx_history' = Append(tx_history, entry)
    /\ UNCHANGED <<payload, run, pc, faults, table0, history0, prev_outcome, http,
                   json_response, conn, existing_keys, processed_api_keys,
                   new_records_count, updated_records_count,
                   skipped_invalid_records_count, i, exit_code, outcome,
                   rollback_called, snapshot, trace>>

\* The runs of this specification meet no failed statement.
InitRace ==
    /\ payload \in Payloads
    /\ table \in InitTables
    /\ history = <<>>
    /\ run = 1
    /\ pc = "start"
    /\ http = "none"
    /\ json_response = NoneResponse
    /\ conn = "none"
    /\ tx_table = {}
    /\ tx_history = <<>>
    /\ existing_keys = {}
    /\ processed_api_keys = {}
    /\ new_records_count = 0
    /\ updated_records_count = 0
    /\ skipped_invalid_records_count = 0
    /\ i = 1
    /\ exit_code = -1
    /\ outcome = "running"
    /\ rollback_called = FALSE
    /\ faults = MaxFaults
    /\ snapshot = {}
    /\ trace = <<>>
    /\ table0 = table
    /\ history0 = history
    /\ prev_outcome = "none"

NextRace == Next \/ ConcurrentInsert

SpecRace == InitRace /\ [][NextRace]_vars

(***************************************************************************)
(* The key of pairs of records                                             *)
(***************************************************************************)
\* Records of one school: two students, each in two grades, a student_id
\* that ends with the delimiter, and two records whose student_id and
\* grade_name hold the delimiter and the year; and the first student
\* with the school name in lower case, and with a two-word school name
\* written with one and with two spaces.
KeyRecords ==
    { StudentA,
      StudentB,
      [StudentA EXCEPT !.grade_name = <<"G", "R", "A", "D", "E", " ", "I", "I">>],
      [StudentB EXCEPT !.grade_name = <<"G", "R", "A", "D", "E", " ", "I", "I">>],
      [StudentA EXCEPT !.student_id = <<"7", "_">>],
      [StudentA EXCEPT !.grade_name = <<"A", "_">> \o ThisYear \o <<"_", "B">>],
      [StudentA EXCEPT !.student_id = <<"7", "_">> \o ThisYear \o <<"_", "A">>,
                       !.grade_name = <<"B">>],
      [StudentA EXCEPT !.school_name = <<"z", "p">>],
      [StudentA EXCEPT !.school_name = <<"Z", " ", "P">>],
      [StudentA EXCEPT !.school_name = <<"Z", " ", " ", "P">>] }

KeyPairs == {<<a, b>> : a \in KeyRecords, b \in KeyRecords}

InitKeys ==
    /\ payload \in {[has_data |-> TRUE, other |-> FALSE, data |-> p] : p \in KeyPairs}
    /\ table = {}
    /\ history = <<>>
    /\ run = 1
    /\ pc = "keys"
    /\ http = "ok"
    /\ json_response = Decoded(payload)
    /\ conn = "none"
    /\ tx_table = {}
    /\ tx_history = <<>>
    /\ existing_keys = {}
    /\ processed_api_keys = {}
    /\ new_records_count = 0
    /\ updated_records_count = 0
    /\ skipped_invalid_records_count = 0
    /\ i = 1
    /\ exit_code = -1
    /\ outcome = "running"
    /\ rollback_called = FALSE
    /\ faults = 0
    /\ snapshot = {}
    /\ trace = <<>>
    /\ table0 = table
    /\ history0 = history
    /\ prev_outcome = "none"

\* Lines 83-104 of main.main for the next record: validation, trimming,
\* normalization and generate_unique_key.
GenerateKey ==
    /\ pc = "keys"
    /\ i <= Len(students_data)
    /\ validate_student_record(students_data[i])
    /\ ~NormalizeRaises(TrimRecord(students_data[i]))
    /\ LET unique_key == generate_unique_key(ProcessedRecord(students_data[i]),
                                             academic_year)
       IN  /\ trace' = Append(trace, Stmt("KEY", i, unique_key, TRUE))
           /\ processed_api_keys' = processed_api_keys \cup {unique_key}
    /\ i' = i + 1
    /\ UNCHANGED <<payload, table, history, run, pc, faults, table0, history0,
                   prev_outcome, http, json_response, conn, tx_table, tx_history,
                   existing_keys, new_records_count, updated_records_count,
                   skipped_invalid_records_count, exit_code, outcome, rollback_called,
                   snapshot>>

NextKeys == GenerateKey

SpecKeys == InitKeys /\ [][NextKeys]_vars

(***************************************************************************)
(* sync_students.main, one action per step                                 *)
(***************************************************************************)
\* The records of the feeds of the sync: the student, the student in the
\* next grade, the student in the next grade with school and student id
\* written otherwise, and a second student.
SyncRecords ==
    { StudentA,
      [StudentA EXCEPT !.grade_name = <<"G", "R", "A", "D", "E", " ", "I", "I">>],
      [StudentA EXCEPT !.grade_name = <<"G", "R", "A", "D", "E", " ", "I", "I">>,
                       !.school_name = <<"z", "p", " ">>,
                       !.student_id = <<" ", "7">>],
      StudentB }
SyncPayloads ==
    {[has_data |-> TRUE, other |-> FALSE, data |-> b] : b \in SeqsUpTo(SyncRecords, MaxBatch)}

InitSync ==
    /\ payload = [has_data |-> TRUE, other |-> FALSE, data |-> <<>>]
    /\ table = {}
    /\ history = <<>>
    /\ run = 1
    /\ pc = "sync_start"
    /\ http = "none"
    /\ json_response = NoneResponse
    /\ conn = "none"
    /\ tx_table = {}
    /\ tx_history = <<>>
    /\ existing_keys = {}
    /\ processed_api_keys = {}
    /\ new_records_count = 0
    /\ updated_records_count = 0
    /\ skipped_invalid_records_count = 0
    /\ i = 1
    /\ exit_code = -1
    /\ outcome = "running"
    /\ rollback_called = FALSE
    /\ faults = 0
    /\ snapshot = {}
    /\ trace = <<>>
    /\ table0 = table
    /\ history0 = history
    /\ prev_outcome = "none"

\* Lines 246-287: the feed of this run is fetched; an empty data list
\* ends the run with status 1; else the connection is opened and the
\* counters are set.
SyncFetch ==
    /\ pc = "sync_start"
    /\ \E body \in SyncPayloads :
        /\ payload' = body
        /\ http' = "ok"
        /\ json_response' = Decoded(body)
        /\ IF body.data = <<>>
           THEN /\ pc' = "done"
                /\ outcome' = "empty"
                /\ exit_code' = 1
                /\ UNCHANGED <<conn, tx_table>>
           ELSE /\ pc' = "sync_loop"
                /\ conn' = "open"
                /\ tx_table' = table
                /\ UNCHANGED <<outcome, exit_code>>
    /\ UNCHANGED <<table, history, run, faults, table0, history0, prev_outcome,
                   tx_history, existing_keys, processed_api_keys, new_records_count,
                   updated_records_count, skipped_invalid_records_count, i,
                   rollback_called, snapshot, trace>>

\* Lines 289-303: one iteration of the loop; an exception of
\* insert_or_update_record is logged and the loop goes on.
SyncRecord ==
    /\ pc = "sync_loop"
    /\ i <= Len(students_data)
    /\ \E check_fails \in {f \in BOOLEAN : f => Budget > 0} :
        \E res \in {insert_or_update_record(tx_table, students_data[i], academic_year,
                                             run, i, check_fails)} :
            /\ tx_table' = res.table
            /\ trace' = trace \o res.stmts
            /\ faults' = faults + (IF check_fails THEN 1 ELSE 0)
            /\ new_records_count' =
                  IF res.result = "insert" THEN new_records_count + 1
                  ELSE new_records_count
            /\ updated_records_count' =
                  IF res.result \in {"update", "duplicate"} THEN updated_records_count + 1
                  ELSE updated_records_count
    /\ i' = i + 1
    /\ UNCHANGED <<payload, table, history, run, pc, table0, history0, prev_outcome,
                   http, json_response, conn, tx_history, existing_keys,
                   processed_api_keys, skipped_invalid_records_count, exit_code,
                   outcome, rollback_called, snapshot>>

\* Lines 305-312: the commit, outside any try: when it raises, the process
\* ends with a traceback and the server discards the transaction.
SyncCommit ==
    /\ pc = "sync_loop"
    /\ i > Len(students_data)
    /\ \/ /\ table' = tx_table
          /\ outcome' = "committed"
          /\ exit_code' = 0
          /\ conn' = "closed"
          /\ UNCHANGED tx_table
       \/ /\ table' = table
          /\ tx_table' = table
          /\ outcome' = "commit_failed"
          /\ exit_code' = 1
          /\ conn' = "lost"
    /\ pc' = "done"
    /\ UNCHANGED <<payload, history, run, faults, table0, history0, prev_outcome, http,
                   json_response, tx_history, existing_keys, processed_api_keys,
                   new_records_count, updated_records_count,
                   skipped_invalid_records_count, i, rollback_called, snapshot, trace>>

\* The sync is started again.
SyncNextRun ==
    /\ pc = "done"
    /\ run < MaxRuns
    /\ run' = run + 1
    /\ pc' = "sync_start"
    /\ prev_outcome' = outcome
    /\ table0' = table
    /\ http' = "none"
    /\ json_response' = NoneResponse
    /\ conn' = "none"
    /\ tx_table' = {}
    /\ new_records_count' = 0
    /\ updated_records_count' = 0
    /\ i' = 1
    /\ exit_code' = -1
    /\ outcome' = "running"
    /\ trace' = <<>>
    /\ UNCHANGED <<payload, table, history, faults, history0, tx_history, existing_keys,
                   processed_api_keys, skipped_invalid_records_count, rollback_called,
                   snapshot>>

NextSync ==
    \/ SyncFetch
    \/ SyncRecord
    \/ SyncCommit
    \/ SyncNextRun

SpecSync == InitSync /\ [][NextSync]_vars

(***************************************************************************)
(* The normalizers, applied to single values                               *)
(***************************************************************************)
\* grade_name values: the two kindergarten names, "GRADE <token>" in both
\* cases with Roman, other and Arabic tokens, and names of other forms.
GradeInputs ==
    { <<"J", "r", ".", "K", "G">>,
      <<"S", "r", ".", "K", "G">>,
      <<"G", "R", "A", "D", "E", " ", "i", "v">>,
      <<"G", "R", "A", "D", "E", " ", "X", "I">>,
      <<"g", "r", "a", "d", "e", " ", "x">>,
      <<"G", "R", "A", "D", "E", " ", "5">>,
      <<"L", "K", "G">>,
      <<" ", "U", "K", "G", " ">>,
      <<"n", "u", "r", "s", "e", "r", "y">>,
      <<"i", "v">> }
\* gender values.
GenderInputs ==
    { <<"M", "a", "l", "e">>,
      <<" ", " ", "m", "a", "l", "e", " ">>,
      <<"F", "E", "M", "A", "L", "E">>,
      <<"f", "e", "m", "a", "l", "e">>,
      <<"O", "t", "h", "e", "r">>,
      <<"M">> }
NormRecords ==
    {[StudentA EXCEPT !.grade_name = g, !.gender = x] : g \in GradeInputs, x \in GenderInputs}

InitNorm ==
    /\ payload \in {[has_data |-> TRUE, other |-> FALSE, data |-> <<r>>] : r \in NormRecords}
    /\ table = {}
    /\ history = <<>>
    /\ run = 1
    /\ pc = "normalize"
    /\ http = "ok"
    /\ json_response = Decoded(payload)
    /\ conn = "none"
    /\ tx_table = {}
    /\ tx_history = <<>>
    /\ existing_keys = {}
    /\ processed_api_keys = {}
    /\ new_records_count = 0
    /\ updated_records_count = 0
    /\ skipped_invalid_records_count = 0
    /\ i = 1
    /\ exit_code = -1
    /\ outcome = "running"
    /\ rollback_called = FALSE
    /\ faults = 0
    /\ snapshot = {}
    /\ trace = <<>>
    /\ table0 = table
    /\ history0 = history
    /\ prev_outcome = "none"

\* convert_grade_name and clean_gender applied to the raw values of the
\* next record; the results are kept as events of the run.
NormalizeRecord ==
    /\ pc = "normalize"
    /\ i <= Len(students_data)
    /\ trace' = trace \o
            <<Stmt("GRADE", i, convert_grade_name(students_data[i].grade_name), TRUE),
              Stmt("GENDER", i, clean_gender(students_data[i].gender), TRUE)>>
    /\ i' = i + 1
    /\ UNCHANGED <<payload, table, history, run, pc, faults, table0, history0,
                   prev_outcome, http, json_response, conn, tx_table, tx_history,
                   existing_keys, processed_api_keys, new_records_count,
                   updated_records_count, skipped_invalid_records_count, exit_code,
                   outcome, rollback_called, snapshot>>

NextNorm == NormalizeRecord

SpecNorm == InitNorm /\ [][NextNorm]_vars

(***************************************************************************)
(* update_existing_record, applied to a stored row and a record            *)
(***************************************************************************)
\* The representations of an absent value: None (NULL), the string
\* "None" and the empty string.
AbsentValues == {None, <<"N", "o", "n", "e">>, <<>>}
StatusValues == AbsentValues \cup {Active}
GenderValues == AbsentValues \cup {<<"M">>}
\* The stored rows and the processed records of the comparison: the row
\* and the record of one student, with status and gender of either drawn
\* from the absent values and one present value.
DiffRows ==
    {[StoredRow(StudentA, ThisYear) EXCEPT !.status = s, !.gender = g] :
        s \in StatusValues, g \in GenderValues}
DiffRecords ==
    {[ProcessedRecord(StudentA) EXCEPT !.status = s, !.gender = g] :
        s \in StatusValues, g \in GenderValues}

InitDiff ==
    /\ payload \in {[has_data |-> TRUE, other |-> FALSE, data |-> <<r>>] : r \in DiffRecords}
    /\ table \in {{r} : r \in DiffRows}
    /\ history = <<>>
    /\ run = 1
    /\ pc = "diff"
    /\ http = "ok"
    /\ json_response = Decoded(payload)
    /\ conn = "open"
    /\ tx_table = table
    /\ tx_history = <<>>
    /\ existing_keys = {r.unique_key : r \in table}
    /\ processed_api_keys = {}
    /\ new_records_count = 0
    /\ updated_records_count = 0
    /\ skipped_invalid_records_count = 0
    /\ i = 1
    /\ exit_code = -1
    /\ outcome = "running"
    /\ rollback_called = FALSE
    /\ faults = 0
    /\ snapshot = existing_keys
    /\ trace = <<>>
    /\ table0 = table
    /\ history0 = history
    /\ prev_outcome = "none"

\* update_existing_record(cursor, record, unique_key) for the record and
\* the key of the stored row, every query succeeding.
DetectChanges ==
    /\ pc = "diff"
    /\ \E unique_key \in existing_keys :
        \E res \in {update_existing_record(tx_table, tx_history, students_data[i],
                                           unique_key, run, i, NoFaults)} :
            /\ tx_table' = res.table
            /\ tx_history' = res.history
            /\ trace' = trace \o res.stmts
    /\ i' = i + 1
    /\ pc' = "compared"
    /\ UNCHANGED <<payload, table, history, run, faults, table0, history0,
                   prev_outcome, http, json_response, conn, existing_keys,
                   processed_api_keys, new_records_count, updated_records_count,
                   skipped_invalid_records_count, exit_code, outcome,
                   rollback_called, snapshot>>

NextDiff == DetectChanges

SpecDiff == InitDiff /\ [][NextDiff]_vars

(***************************************************************************)
(* The normalizers, applied twice                                          *)
(***************************************************************************)
\* Trimmed values of grade_name, student_name and division_name.
TrimmedGrades == {StrStrip(g) : g \in GradeInputs}
TrimmedNames ==
    { <<"a", "n", "n">>,
      <<"A", "N", "N", " ", " ", "l", "e", "e">>,
      <<"o", "'", "n", "e", "i", "l">>,
      <<DotlessI, "a">> }
TrimmedDivisions ==
    { <<"1", "-", "a">>,
      <<"A">>,
      <<"1", "2">>,
      <<"b", "2", "c">>,
      <<"7", " ", "-", " ", "c">>,
      <<"1", DotlessI>> }
TwiceRecords ==
    {[StudentA EXCEPT !.grade_name = g, !.student_name = n, !.division_name = d] :
        g \in TrimmedGrades, n \in TrimmedNames, d \in TrimmedDivisions}

InitTwice ==
    /\ payload \in {[has_data |-> TRUE, other |-> FALSE, data |-> <<r>>] : r \in TwiceRecords}
    /\ table = {}
    /\ history = <<>>
    /\ run = 1
    /\ pc = "normalize_twice"
    /\ http = "ok"
    /\ json_response = Decoded(payload)
    /\ conn = "open"
    /\ tx_table = {}
    /\ tx_history = <<>>
    /\ existing_keys = {}
    /\ processed_api_keys = {}
    /\ new_records_count = 0
    /\ updated_records_count = 0
    /\ skipped_invalid_records_count = 0
    /\ i = 1
    /\ exit_code = -1
    /\ outcome = "running"
    /\ rollback_called = FALSE
    /\ faults = 0
    /\ snapshot = {}
    /\ trace = <<>>
    /\ table0 = table
    /\ history0 = history
    /\ prev_outcome = "none"

\* The normalizations of one record of the pass: main.py lines 93-104
\* normalize the record and make its key, and insert_new_record normalizes
\* the processed record again for the row.  The results of one and of two
\* applications of each normalizer are kept as events.
NormalizeTwice ==
    /\ pc = "normalize_twice"
    /\ LET record == students_data[i]
           processed_record == ProcessedRecord(record)
           unique_key == generate_unique_key(processed_record, academic_year)
       IN  /\ tx_table' = {InsertedRow(processed_record, unique_key, academic_year, run)}
           /\ trace' =
                <<Stmt("GRADE", i, convert_grade_name(record.grade_name), TRUE),
                  Stmt("GRADE_AGAIN", i,
                       convert_grade_name(convert_grade_name(record.grade_name)), TRUE),
                  Stmt("NAME", i, clean_student_name(record.student_name), TRUE),
                  Stmt("NAME_AGAIN", i,
                       clean_student_name(clean_student_name(record.student_name)), TRUE),
                  Stmt("DIVISION", i, extract_division(record.division_name), TRUE),
                  Stmt("DIVISION_AGAIN", i,
                       extract_division(extract_division(record.division_name)), TRUE)>>
    /\ i' = i + 1
    /\ pc' = "normalized_twice"
    /\ UNCHANGED <<payload, table, history, run, faults, table0, history0,
                   prev_outcome, http, json_response, conn, tx_history, existing_keys,
                   processed_api_keys, new_records_count, updated_records_count,
                   skipped_invalid_records_count, exit_code, outcome,
                   rollback_called, snapshot>>

NextTwice == NormalizeTwice

SpecTwice == InitTwice /\ [][NextTwice]_vars

(***************************************************************************)
(* Properties                                                              *)
(***************************************************************************)
WriteOps == {"INSERT", "UPDATE", "INACTIVATE", "HISTORY"}
\* The statements of this run that wrote, or tried to write, a row.
Attempted == {k \in 1..Len(trace) : trace[k].op \in WriteOps}
Applied == {k \in Attempted : trace[k].ok}
\* The history entries this run appended inside its transaction.
NewEntries == SubSeq(tx_history, Len(history0) + 1, Len(tx_history))
\* The records of the batch the loop has passed.
Passed == 1..(i - 1)
\* A required field is missing or empty after trimming.
InvalidRaw(record) ==
    \E f \in Fields :
        \/ record[f] \in {Missing, None}
        \/ IsStr(record[f]) /\ StrStrip(record[f]) = <<>>
\* The keys the valid records of the batch resolve to.
ResolvedKeys ==
    {generate_unique_key(ProcessedRecord(students_data[j]), academic_year) :
        j \in {k \in 1..Len(students_data) :
                  /\ ~InvalidRaw(students_data[k])
                  /\ ~NormalizeRaises(TrimRecord(students_data[k]))}}
\* The status a key had when the run began.
StatusBefore(unique_key) == (CHOOSE r \in RowsOf(table0, unique_key) : TRUE).status
SweepDone == pc \in {"dupcheck", "commit"} \/ (pc = "done" /\ outcome = "committed")

\* C1: idempotence.  When a run commits after an earlier run of the same
\* batch committed, and no statement failed, the second run wrote no row,
\* appended no history entry, and its inserted and updated counters are 0.
C1_Idempotence ==
    (pc = "done" /\ outcome = "committed" /\ prev_outcome = "committed" /\ faults = 0)
        => /\ Attempted = {}
           /\ table = table0
           /\ history = history0
           /\ new_records_count = 0
           /\ updated_records_count = 0

\* C2: fatal abort atomicity.  After a run whose commit failed, the durable
\* tables are those of before the run.
C2_FatalAbortAtomicity ==
    (pc = "done" /\ outcome = "commit_failed") => (table = table0 /\ history = history0)

\* A commit fails after the transaction inserted a row, inactivated one
\* and logged both.
C2_Witness ==
    /\ pc = "done"
    /\ outcome = "commit_failed"
    /\ \E a, b, c \in Applied :
        trace[a].op = "INSERT" /\ trace[b].op = "INACTIVATE" /\ trace[c].op = "HISTORY"
    /\ tx_table = table0

\* C3: inactivation sweep.  With no failed statement, after the sweep
\* exactly the snapshot keys that no valid record resolved to and whose
\* status was not "Inactive" were set to "Inactive", each with one history
\* entry (INACTIVATE, status, previous status, "Inactive"); no key seen in
\* the batch was touched by the sweep.
C3_InactivationSweep ==
    (SweepDone /\ faults = 0) =>
        LET vanished == {k \in snapshot :
                            k \notin ResolvedKeys /\ StatusBefore(k) # Inactive}
            swept == {trace[k].key : k \in {a \in Applied : trace[a].op = "INACTIVATE"}}
            logged == SelectSeq(NewEntries, LAMBDA e : e.change_type = "INACTIVATE")
        IN  /\ swept = vanished
            /\ \A k \in vanished :
                /\ \A r \in RowsOf(tx_table, k) : r.status = Inactive
                /\ SelectSeq(logged, LAMBDA e : e.unique_key = k)
                     = <<HistoryEntry(k, "INACTIVATE", FieldLabel("status"),
                                      StatusBefore(k), Inactive, run)>>
            /\ \A n \in 1..Len(logged) : logged[n].unique_key \in vanished
            /\ \A k \in Attempted :
                trace[k].op = "INACTIVATE" => trace[k].key \notin ResolvedKeys

\* The sweep inactivates one key, leaves a key of the batch alone and
\* skips a key that was inactive already.
C3_Witness ==
    /\ pc = "dupcheck"
    /\ faults = 0
    /\ \E k \in Applied : trace[k].op = "INACTIVATE"
    /\ snapshot \cap ResolvedKeys # {}
    /\ \E k \in snapshot \ ResolvedKeys : StatusBefore(k) = Inactive

\* Two records are the same but for grade_name.
SameButGrade(a, b) == \A f \in Fields \ {"grade_name"} : a[f] = b[f]

\* C4: identity stability.  Two valid records that differ in grade_name
\* only resolve to the same unique key.
C4_IdentityStability ==
    \A a, b \in 1..Len(trace) :
        (/\ trace[a].op = "KEY"
         /\ trace[b].op = "KEY"
         /\ SameButGrade(students_data[trace[a].idx], students_data[trace[b].idx]))
            => trace[a].key = trace[b].key

\* C5: identity injectivity.  Two valid records of one school and year
\* whose student_id values differ resolve to different unique keys.
C5_IdentityInjectivity ==
    \A a, b \in 1..Len(trace) :
        (/\ trace[a].op = "KEY"
         /\ trace[b].op = "KEY"
         /\ StrStrip(students_data[trace[a].idx].school_name)
              = StrStrip(students_data[trace[b].idx].school_name)
         /\ StrStrip(students_data[trace[a].idx].student_id)
              # StrStrip(students_data[trace[b].idx].student_id))
            => trace[a].key # trace[b].key

\* C6: validation rejection.  Every record the loop has passed in which a
\* required field is missing or empty after trimming was counted in
\* skipped_invalid_records_count and caused no statement: no key was
\* computed for it or added to processed_api_keys, and nothing was written.
C6_ValidationRejection ==
    LET invalid == {j \in Passed : InvalidRaw(students_data[j])}
    IN  /\ skipped_invalid_records_count = Cardinality(invalid)
        /\ \A k \in 1..Len(trace) : trace[k].idx \notin invalid
        /\ processed_api_keys
             = {trace[k].key : k \in {a \in 1..Len(trace) : trace[a].op = "KEY"}}

\* The loop skipped a record without student_id and inserted the next one.
C6_Witness ==
    /\ pc = "commit"
    /\ Len(students_data) = 2
    /\ students_data[1].student_id = Missing
    /\ skipped_invalid_records_count = 1
    /\ \E k \in Applied : trace[k].op = "INSERT" /\ trace[k].idx = 2

\* The rows stored, when the run began, for the student of a record.
StoredFor(record) ==
    {r \in table0 :
        /\ r.school_name = ProcessedRecord(record).school_name
        /\ r.student_id = ProcessedRecord(record).student_id
        /\ r.academic_year = academic_year}
\* The records of the batch that reach the comparison, and those of them
\* that are the only record of their student.
Comparable == {j \in 1..Len(students_data) :
                  /\ ~InvalidRaw(students_data[j])
                  /\ ~NormalizeRaises(TrimRecord(students_data[j]))}
Alone == {j \in Comparable :
             \A k \in Comparable \ {j} :
                 \/ students_data[k].school_name # students_data[j].school_name
                 \/ students_data[k].student_id # students_data[j].student_id}

\* C7: change detection granularity.  With no failed statement, for a
\* record whose student has a stored row the run appended exactly one
\* UPDATE entry for each compared field whose normalized value differs
\* from the stored one and none for the other fields; so stored "GRADE 1"
\* and incoming "GRADE 2" give one entry, for grade_name.
C7_ChangeDetection ==
    (SweepDone /\ faults = 0) =>
        \A j \in Alone : \A r \in StoredFor(students_data[j]) :
            \A n \in 1..Len(fields_to_check) :
                LET f == fields_to_check[n]
                    entries == SelectSeq(NewEntries,
                                   LAMBDA e : /\ e.change_type = "UPDATE"
                                              /\ e.unique_key = r.unique_key
                                              /\ e.field_changed = FieldLabel(f))
                IN  Len(entries)
                      = IF NewValues(ProcessedRecord(students_data[j]))[f] # r[f]
                        THEN 1 ELSE 0

\* C8: per-record failure isolation.  A run that opened a connection ends
\* only after the loop passed every record of the batch, the sweep ran and
\* the commit was attempted.
C8_FailureIsolation ==
    (pc = "done" /\ conn # "none") =>
        /\ outcome \in {"committed", "commit_failed"}
        /\ i = Len(students_data) + 1

\* C9: a failed fetch aborts cleanly.  When the request timed out, came
\* back with another status than 200, raised a request error or carried a
\* body that does not decode, the run has ended without a connection and
\* without a statement.
C9_FetchFailureAborts ==
    http \in HttpOutcomes \ {"ok"} =>
        /\ pc = "done"
        /\ outcome = "fetch_failed"
        /\ conn = "none"
        /\ trace = <<>>
        /\ table = table0
        /\ history = history0

\* A run's request is answered with an error status over a store that an
\* earlier run filled.
C9_Witness ==
    /\ http = "status"
    /\ run = 2
    /\ table # {}
    /\ payload.data # <<>>

\* C10: exit status.  A run that committed ended with exit code 0; a run
\* whose fetch, connection or commit failed ended with another exit code.
C10_ExitStatus ==
    pc = "done" =>
        /\ outcome = "committed" => exit_code = 0
        /\ (http # "ok" \/ outcome \in {"connect_failed", "commit_failed"})
              => exit_code > 0

\* A run ends after its commit failed.
C10_Witness ==
    /\ pc = "done"
    /\ outcome = "commit_failed"
    /\ Applied # {}
    /\ exit_code = 1

\* C11: concurrent insert race.  No two rows hold one key; and when
\* another pass inserted the row of a key during this run, every INSERT
\* of this run for that key was rejected, the loop went on to the next
\* record, and this run appended no INSERT history entry for the key.
C11_ConcurrentInsertRace ==
    /\ \A r1, r2 \in tx_table : r1.unique_key = r2.unique_key => r1 = r2
    /\ \A r1, r2 \in table : r1.unique_key = r2.unique_key => r1 = r2
    /\ \A r \in {x \in tx_table \ table0 : ByOther(x)} :
        /\ \A k \in 1..Len(trace) :
            (trace[k].op = "INSERT" /\ trace[k].key = r.unique_key)
                => ~trace[k].ok /\ trace[k].idx < i
        /\ \A n \in 1..Len(tx_history) :
            (tx_history[n].unique_key = r.unique_key /\ tx_history[n].change_type = "INSERT")
                => tx_history[n].change_timestamp # run

\* This pass found the key new, another pass inserted it first, this
\* pass's INSERT was rejected and the pass committed.
C11_Witness ==
    /\ pc = "done"
    /\ outcome = "committed"
    /\ \E r \in {x \in tx_table \ table0 : ByOther(x)} :
        /\ r.unique_key \notin snapshot
        /\ \E k \in 1..Len(trace) :
            trace[k].op = "INSERT" /\ trace[k].key = r.unique_key /\ ~trace[k].ok

\* The history entries of this run for a key, of the given change types.
EntriesOf(unique_key, types) ==
    SelectSeq(NewEntries,
              LAMBDA e : e.unique_key = unique_key /\ e.change_type \in types)
KeysOf(tbl) == {r.unique_key : r \in tbl}

\* C12: audit completeness and accuracy.  After a committed pass, failed
\* statements or not: a row the pass inserted has exactly one INSERT
\* entry and no other key has one; a compared field of a row that the
\* pass changed has exactly one UPDATE or INACTIVATE entry, with the old
\* and the new value, and an unchanged field has none.
C12_AuditCompleteness ==
    (pc = "done" /\ outcome = "committed") =>
        /\ \A k \in KeysOf(table) \ KeysOf(table0) : Len(EntriesOf(k, {"INSERT"})) = 1
        /\ \A k \in KeysOf(table0) : EntriesOf(k, {"INSERT"}) = <<>>
        /\ \A r0 \in table0 : \A r1 \in RowsOf(table, r0.unique_key) :
            \A n \in 1..Len(fields_to_check) :
                LET f == fields_to_check[n]
                    entries == SelectSeq(EntriesOf(r0.unique_key, {"UPDATE", "INACTIVATE"}),
                                         LAMBDA e : e.field_changed = FieldLabel(f))
                IN  IF r0[f] # r1[f]
                    THEN /\ Len(entries) = 1
                         /\ entries[1].old_value = r0[f]
                         /\ entries[1].new_value = r1[f]
                    ELSE entries = <<>>

\* The key a record of the batch resolves to, and the last record of the
\* batch that resolves to a key.
KeyAt(j) == generate_unique_key(ProcessedRecord(students_data[j]), academic_year)
LastFor(unique_key) ==
    CHOOSE j \in Comparable :
        /\ KeyAt(j) = unique_key
        /\ \A k \in Comparable : KeyAt(k) = unique_key => k <= j

\* C13: the store reflects the latest known state.  After a committed
\* pass without a failed statement, every key a valid record resolved to
\* has a row, and its compared fields hold the normalized values of the
\* last record of the batch that resolved to the key.
C13_LatestState ==
    (pc = "done" /\ outcome = "committed" /\ faults = 0) =>
        \A k \in ResolvedKeys :
            /\ RowsOf(table, k) # {}
            /\ \A r \in RowsOf(table, k) : \A n \in 1..Len(fields_to_check) :
                r[fields_to_check[n]]
                  = NewValues(ProcessedRecord(students_data[LastFor(k)]))[fields_to_check[n]]

\* What the grade rule gives: the kindergarten names uppercased, "GRADE "
\* and the Arabic numeral or the uppercased token, else the input trimmed
\* and uppercased.
RomanNumerals ==
    { <<"I">>, <<"I", "I">>, <<"I", "I", "I">>, <<"I", "V">>, <<"V">>, <<"V", "I">>,
      <<"V", "I", "I">>, <<"V", "I", "I", "I">>, <<"I", "X">>, <<"X">> }
ArabicOf(roman) ==
    CASE roman = <<"I">> -> <<"1">>
      [] roman = <<"I", "I">> -> <<"2">>
      [] roman = <<"I", "I", "I">> -> <<"3">>
      [] roman = <<"I", "V">> -> <<"4">>
      [] roman = <<"V">> -> <<"5">>
      [] roman = <<"V", "I">> -> <<"6">>
      [] roman = <<"V", "I", "I">> -> <<"7">>
      [] roman = <<"V", "I", "I", "I">> -> <<"8">>
      [] roman = <<"I", "X">> -> <<"9">>
      [] roman = <<"X">> -> <<"1", "0">>
NormalizedGrade(value) ==
    IF value = <<"J", "r", ".", "K", "G">> THEN <<"J", "R", ".", "K", "G">>
    ELSE IF value = <<"S", "r", ".", "K", "G">> THEN <<"S", "R", ".", "K", "G">>
    ELSE IF GradeMatches(value)
    THEN LET token == StrUpper(GradeToken(value))
         IN  <<"G", "R", "A", "D", "E", " ">>
                \o (IF token \in RomanNumerals THEN ArabicOf(token) ELSE token)
    ELSE StrUpper(StrStrip(value))

\* C14: grade normalization.  convert_grade_name gives "JR.KG" for
\* "Jr.KG", "SR.KG" for "Sr.KG", "GRADE " and the Arabic numeral or the
\* uppercased token for "GRADE <token>", and every other input trimmed
\* and uppercased.
C14_GradeNormalization ==
    \A k \in 1..Len(trace) :
        trace[k].op = "GRADE"
            => trace[k].key = NormalizedGrade(students_data[trace[k].idx].grade_name)

CanonicalSchool(record) == StrUpper(StrStrip(CollapseSpaces(record.school_name)))
SameButSchool(a, b) == \A f \in Fields \ {"school_name"} : a[f] = b[f]

\* C16: formatting-insensitive identity.  Two valid records that differ
\* only in the letter case or the inner whitespace of school_name resolve
\* to the same unique key.
C16_FormattingInsensitiveIdentity ==
    \A a, b \in 1..Len(trace) :
        (/\ trace[a].op = "KEY"
         /\ trace[b].op = "KEY"
         /\ SameButSchool(students_data[trace[a].idx], students_data[trace[b].idx])
         /\ CanonicalSchool(students_data[trace[a].idx])
              = CanonicalSchool(students_data[trace[b].idx]))
            => trace[a].key = trace[b].key

\* The student of a stored row and of a record of the feed: the school
\* name with its whitespace collapsed, uppercased, the student id trimmed
\* and uppercased, and the academic year.
RowStudent(row) ==
    <<StrUpper(StrStrip(CollapseSpaces(row.school_name))),
      StrUpper(StrStrip(row.student_id)), row.academic_year>>
RecordStudent(record) ==
    <<StrUpper(StrStrip(CollapseSpaces(record.school_name))),
      StrUpper(StrStrip(record.student_id)), academic_year>>

\* C17: one row per student and year in the unified sync.  No two rows
\* are of one student; and after a committed run without a failed query
\* the one row of each student of the feed has the normalized grade of
\* the student's last record in the feed.
C17_OneRowPerStudent ==
    /\ \A r1, r2 \in tx_table : RowStudent(r1) = RowStudent(r2) => r1 = r2
    /\ \A r1, r2 \in table : RowStudent(r1) = RowStudent(r2) => r1 = r2
    /\ (pc = "done" /\ outcome = "committed" /\ faults = 0) =>
        \A j \in 1..Len(students_data) :
            LET rows == {r \in table : RowStudent(r) = RecordStudent(students_data[j])}
            IN  /\ Cardinality(rows) = 1
                /\ (\A k \in (j + 1)..Len(students_data) :
                        RecordStudent(students_data[k]) # RecordStudent(students_data[j]))
                    => \A r \in rows :
                         r.grade_name = sync_convert_grade_name(students_data[j].grade_name)

\* A later run found the student's row with "GRADE 1" and left the one
\* row with "GRADE 2", for a record that writes school and id otherwise.
C17_Witness ==
    /\ pc = "done"
    /\ outcome = "committed"
    /\ run > 1
    /\ students_data = <<[StudentA EXCEPT
                            !.grade_name = <<"G", "R", "A", "D", "E", " ", "I", "I">>,
                            !.school_name = <<"z", "p", " ">>,
                            !.student_id = <<" ", "7">>]>>
    /\ \E r \in table0 : r.grade_name = <<"G", "R", "A", "D", "E", " ", "1">>
    /\ Cardinality(table) = 1
    /\ \A r \in table : r.grade_name = <<"G", "R", "A", "D", "E", " ", "2">>

\* C18: NEW classification.  With no failed statement, for every valid
\* record whose key is not in the snapshot of existing keys the pass
\* inserted one row with that key and appended exactly one history entry
\* for it: change type INSERT, field_changed null, old value null and
\* new value "Initial Insertion".
C18_NewClassification ==
    (SweepDone /\ faults = 0) =>
        \A j \in Comparable :
            KeyAt(j) \notin snapshot =>
                /\ Cardinality(RowsOf(tx_table, KeyAt(j))) = 1
                /\ Len(EntriesOf(KeyAt(j), {"INSERT"})) = 1
                /\ \A n \in 1..Len(EntriesOf(KeyAt(j), {"INSERT"})) :
                    LET e == EntriesOf(KeyAt(j), {"INSERT"})[n]
                    IN  /\ e.field_changed = None
                        /\ e.old_value = None
                        /\ e.new_value = InitialInsertion

\* The records the loop has classified, by the position in the trace of
\* the key the pass resolved for them; and those of them whose key is in
\* the snapshot and whose five compared fields, normalized, equal those
\* of the row stored under the key when the run began.
Classified == {k \in 1..Len(trace) : trace[k].op = "KEY"}
Unchanged ==
    {k \in Classified :
        LET rows == RowsOf(table0, trace[k].key)
            new == NewValues(ProcessedRecord(students_data[trace[k].idx]))
        IN  /\ rows # {}
            /\ trace[k].key \in snapshot
            /\ \A r \in rows : \A n \in 1..Len(fields_to_check) :
                r[fields_to_check[n]] = new[fields_to_check[n]]}

\* C19: an unchanged record is a no-op.  For a record whose key is in the
\* snapshot and none of whose five compared fields differs from the
\* stored row, the pass issued no UPDATE and no history statement; and
\* when no other record the loop has passed resolved to the key, the row
\* is in the transaction as it was stored, timestamp included, and the
\* run has no history entry for the key.
C19_UnchangedIsNoOp ==
    \A k \in Unchanged :
        LET unique_key == trace[k].key
            stored == RowsOf(table0, unique_key)
        IN  /\ \A m \in 1..Len(trace) :
                trace[m].idx = trace[k].idx => trace[m].op \notin {"UPDATE", "HISTORY"}
            /\ (\A m \in Classified \ {k} : trace[m].key # unique_key) =>
                /\ pc = "loop" => RowsOf(tx_table, unique_key) = stored
                /\ \A r \in RowsOf(tx_table, unique_key) : \E r0 \in stored :
                    r.timestamp = r0.timestamp
                /\ EntriesOf(unique_key, {"INSERT", "UPDATE", "INACTIVATE"}) = <<>>

\* A committed pass over a feed with the stored student, unchanged: the
\* comparison ran for the record and the row keeps its earlier timestamp.
C19_Witness ==
    /\ pc = "done"
    /\ outcome = "committed"
    /\ \E k \in Unchanged :
        /\ trace[k].key = KeyAt(trace[k].idx)
        /\ \E r \in RowsOf(table, trace[k].key) : r \in table0

\* C20: the run counters match the events.  At the end of the loop the
\* updated counter is the number of records for which the pass applied
\* an UPDATE, and the inserted counter is the number of rows the pass
\* inserted.
C20_CountersMatchEvents ==
    SweepDone =>
        /\ updated_records_count
             = Cardinality({trace[k].idx : k \in {m \in Applied : trace[m].op = "UPDATE"}})
        /\ new_records_count
             = Cardinality({trace[k].idx : k \in {m \in Applied : trace[m].op = "INSERT"}})

\* C21: classification against the snapshot.  For no record whose key is
\* in the snapshot of existing keys taken at the start of the pass, the
\* first or a later record of its key in the batch, did the pass attempt
\* an INSERT.
C21_ClassificationAgainstSnapshot ==
    \A k \in 1..Len(trace) :
        trace[k].op = "INSERT" => trace[k].key \notin snapshot

\* The rows stored when the run began under a key of the snapshot that no
\* record of the batch resolved to, with status "Inactive" already.
VanishedInactive ==
    {r \in table0 :
        /\ r.status = Inactive
        /\ r.unique_key \in snapshot
        /\ \A k \in Classified : trace[k].key # r.unique_key}

\* C22: already-inactive keys are untouched by the sweep.  After the
\* sweep, failed statements or not, the row of every vanished key whose
\* stored status was "Inactive" is as it was stored, timestamp included,
\* and the run has no history entry for the key.
C22_InactiveUntouched ==
    SweepDone =>
        \A r \in VanishedInactive :
            /\ RowsOf(tx_table, r.unique_key) = {r}
            /\ EntriesOf(r.unique_key, {"INSERT", "UPDATE", "INACTIVATE"}) = <<>>
            /\ \A k \in Attempted : trace[k].key = r.unique_key => ~trace[k].ok

\* The sweep has run over a vanished key that was inactive already and
\* over one that it inactivated.
C22_Witness ==
    /\ pc = "dupcheck"
    /\ \E r \in VanishedInactive :
        /\ r \in tx_table
        /\ r.unique_key \in existing_keys \ processed_api_keys
        /\ \E k \in Applied :
            trace[k].op = "INACTIVATE" /\ trace[k].key # r.unique_key

\* The identity of a stored row.
IdentityOf(row) == <<row.school_name, row.student_id, row.academic_year, row.unique_key>>

\* C23: identity fields are immutable.  No iteration of the loop (update,
\* insert, rejected insert) and no sweep changes the school_name,
\* student_id, academic_year or unique_key of a row of the transaction:
\* every row is there after the step with the same four values.
C23_IdentityImmutable ==
    [][(pc = "loop" /\ pc' \in {"loop", "dupcheck"}) =>
          \A r \in tx_table : \E r2 \in tx_table' : IdentityOf(r2) = IdentityOf(r)]_vars

\* The pass has updated a row, had an INSERT for the same key rejected
\* and inactivated another row; the three rows have the identity they
\* were stored with.
C23_Witness ==
    /\ pc = "dupcheck"
    /\ \E u, n \in Attempted :
        /\ trace[u].op = "UPDATE" /\ trace[u].ok
        /\ trace[n].op = "INSERT" /\ ~trace[n].ok /\ trace[n].key = trace[u].key
        /\ \E r \in tx_table : r.unique_key = trace[u].key /\ r.timestamp = run
    /\ \E k \in Applied : trace[k].op = "INACTIVATE"
    /\ \A r \in table0 : \E r2 \in tx_table : IdentityOf(r2) = IdentityOf(r)

\* C24: no physical deletion.  No step takes a key out of the record
\* table, and no step of a pass takes one out of its transaction; and
\* after a committed pass without a failed statement every key of the
\* snapshot that no record of the batch resolved to has its row, with
\* status "Inactive".
C24_NoPhysicalDeletion ==
    /\ [][/\ KeysOf(table) \subseteq KeysOf(table')
          /\ (pc = "loop" /\ pc' \in {"loop", "dupcheck"}) =>
                KeysOf(tx_table) \subseteq KeysOf(tx_table')]_vars
    /\ []((pc = "done" /\ outcome = "committed" /\ faults = 0) =>
            \A unique_key \in snapshot :
                (\A k \in Classified : trace[k].key # unique_key) =>
                    /\ RowsOf(table, unique_key) # {}
                    /\ \A r \in RowsOf(table, unique_key) : r.status = Inactive)

\* A second pass has committed, and a row that the first pass set to
\* "Inactive" is in the table still.
C24_Witness ==
    /\ pc = "done"
    /\ outcome = "committed"
    /\ run > 1
    /\ \E r \in table :
        /\ r.status = Inactive
        /\ r.timestamp = run - 1
        /\ \E n \in 1..Len(history) :
            /\ history[n].unique_key = r.unique_key
            /\ history[n].change_type = "INACTIVATE"
        /\ \A k \in Classified : trace[k].key # r.unique_key

\* C25: commit-failure handling.  When the commit of a pass has failed,
\* the handler has run: rollback was called on the connection, the
\* connection is closed and the exit status is 1.
C25_CommitFailureHandling ==
    (pc = "done" /\ outcome = "commit_failed") =>
        /\ rollback_called
        /\ conn = "closed"
        /\ exit_code = 1

\* The compared fields of which the stored value and the normalized
\* incoming value are both representations of an absent value.
BothAbsent(row, record) ==
    {n \in 1..Len(fields_to_check) :
        /\ row[fields_to_check[n]] \in AbsentValues
        /\ NewValues(record)[fields_to_check[n]] \in AbsentValues}

\* C26: uniform treatment of absent values in change detection.  After
\* update_existing_record compared a record with the stored row, there is
\* no UPDATE history entry for a field whose stored and normalized
\* incoming value are each None, "None" or the empty string; and when
\* every other field is equal, no UPDATE was issued.
C26_AbsentValuesUniform ==
    pc = "compared" =>
        \A r \in table0 :
            /\ \A n \in BothAbsent(r, students_data[1]) :
                \A m \in 1..Len(tx_history) :
                    tx_history[m].field_changed # FieldLabel(fields_to_check[n])
            /\ (\A n \in (1..Len(fields_to_check)) \ BothAbsent(r, students_data[1]) :
                    r[fields_to_check[n]] = NewValues(students_data[1])[fields_to_check[n]])
                => \A k \in 1..Len(trace) : trace[k].op # "UPDATE"

\* C27: an empty upstream batch performs no reconciliation.  When the
\* request succeeded and the data list of the body is missing or empty,
\* the run has ended with status 0 without a connection, and it wrote no
\* row and no history entry.
C27_EmptyBatchNoReconciliation ==
    (pc = "done" /\ http = "ok" /\ StudentsData(Decoded(payload)) = <<>>) =>
        /\ exit_code = 0
        /\ conn = "none"
        /\ trace = <<>>
        /\ table = table0
        /\ history = history0

\* The pass took its snapshot, and the snapshot is empty although the
\* table had rows of the academic year: the query of fetch_existing_keys
\* failed.
SnapshotFailed ==
    /\ pc \in {"loop", "dupcheck", "commit", "done"}
    /\ outcome \in {"running", "committed", "commit_failed", "crashed"}
    /\ snapshot = {}
    /\ \E r \in table0 : r.academic_year = academic_year

\* C28: snapshot query failure.  In a pass whose snapshot query failed no
\* UPDATE and no inactivation is issued and every stored row stays as it
\* was; every record the loop classified went to an INSERT, and the
\* INSERT of a key that has a row was rejected.
C28_SnapshotFailure ==
    SnapshotFailed =>
        /\ \A k \in 1..Len(trace) : trace[k].op \notin {"UPDATE", "INACTIVATE"}
        /\ table0 \subseteq tx_table
        /\ \A k \in Classified :
            \E m \in 1..Len(trace) :
                /\ trace[m].op = "INSERT"
                /\ trace[m].idx = trace[k].idx
                /\ trace[m].key = trace[k].key
                /\ RowsOf(table0, trace[m].key) # {} => ~trace[m].ok

\* A pass whose snapshot query failed has committed: the INSERT for a
\* stored key was rejected, and an active row whose key no record of the
\* batch resolved to is active still.
C28_Witness ==
    /\ SnapshotFailed
    /\ pc = "done"
    /\ outcome = "committed"
    /\ \E m \in 1..Len(trace) :
        trace[m].op = "INSERT" /\ ~trace[m].ok /\ RowsOf(table0, trace[m].key) # {}
    /\ \E r \in table0 \cap table :
        /\ r.status = Active
        /\ r.academic_year = academic_year
        /\ \A k \in Classified : trace[k].key # r.unique_key

\* C29: repeated normalization is idempotent.  For a trimmed value, two
\* applications of convert_grade_name, clean_student_name and
\* extract_division give what one gives; the grade stored with the row is
\* the grade at the end of the row's key, and each stored value is its
\* own normalization.
C29_NormalizationIdempotent ==
    pc = "normalized_twice" =>
        /\ \A k \in 1..Len(trace) : \A m \in 1..Len(trace) :
            (/\ trace[k].op \in {"GRADE", "NAME", "DIVISION"}
             /\ m = k + 1) => trace[m].key = trace[k].key
        /\ \A r \in tx_table :
            /\ Len(r.unique_key) > Len(r.grade_name)
            /\ SubSeq(r.unique_key, Len(r.unique_key) - Len(r.grade_name),
                      Len(r.unique_key)) = <<"_">> \o r.grade_name
            /\ convert_grade_name(r.grade_name) = r.grade_name
            /\ clean_student_name(r.student_name) = r.student_name
            /\ extract_division(r.division_name) = r.division_name

=============================================================================
